---- MODULE Spec2Model ----
(***************************************************************************)
(* Stock ledger of ms-inventario: stock entry (recibir_entrada) and FEFO   *)
(* depletion (salida_por_fefo) of src/services/inventario_service.py over  *)
(* the inventario table of src/domain/models.py, through a SQLAlchemy      *)
(* session (unit of work: objects changed in memory are written to the     *)
(* table by session.commit(), and stay pending in the session until then). *)
(***************************************************************************)
EXTENDS Integers, Sequences, FiniteSets, TLC

\* ------------------------------------------------------------------ bounds
\* Inventario rows created in one behaviour (ids are fresh uuid4 values).
MaxId == 2
\* Largest cantidad a row is allowed to reach by merging entries.
MaxCantidad == 2
\* Data rows in one feed.
MaxFilas == 2

\* ----------------------------------------------------------------- catalog
\* InventarioEstadoEnum.
DISPONIBLE == "DISPONIBLE"
BLOQUEADO == "BLOQUEADO"
VENCIDO == "VENCIDO"
DANIADO == "DANIADO"
InventarioEstadoEnum == {DISPONIBLE, BLOQUEADO, VENCIDO, DANIADO}

\* Optional values: <<>> is None, <<x>> is x.
None == <<>>
Some(x) == <<x>>

\* The lote table: three lots of P1 (vencimiento +10, +5, none, as in the
\* service tests' fixture) and one lot of P2.
Lote ==
  [ L1 |-> [producto_id |-> "P1", vencimiento |-> Some(10)],
    L2 |-> [producto_id |-> "P1", vencimiento |-> Some(5)],
    L3 |-> [producto_id |-> "P1", vencimiento |-> None],
    L4 |-> [producto_id |-> "P2", vencimiento |-> Some(5)] ]
LoteIds == DOMAIN Lote
\* The ubicacion table: two slots of one bodega, as in the service tests'
\* fixture (the sort key stands for ciudad, pasillo, estante, posicion).
Ubicacion ==
  [ U1 |-> [bodega_id |-> "B1", ciudad |-> "Bogota", puesto |-> 1],
    U2 |-> [bodega_id |-> "B1", ciudad |-> "Bogota", puesto |-> 2] ]
UbicacionIds == {"U1", "U2"}
ProductoIds == {"P1", "P2"}

\* ------------------------------------------------------------------ inputs
\* Entry requests (lote_id, ubicacion_id, estado) offered to recibir_entrada.
Entradas ==
  { <<"L1", "U1", DISPONIBLE>>, <<"L2", "U1", DISPONIBLE>>,
    <<"L3", "U2", DISPONIBLE>>, <<"L2", "U2", DISPONIBLE>>,
    <<"L1", "U1", BLOQUEADO>>,  <<"L4", "U1", DISPONIBLE>>,
    <<"L2", "U1", VENCIDO>>,    <<"L3", "U2", DANIADO>>,
    <<"LX", "U1", DISPONIBLE>>, <<"L1", "UX", DISPONIBLE>> }
CantidadesEntrada == {-1, 0, 1, 2}
CantidadesSalida == {-1, 0, 1, 2, 3}
FiltrosUbicacion == {None, Some("U1"), Some("U2")}
\* Products asked for in the queries: the catalog's and one that is not there.
ProductosConsulta == ProductoIds \cup {"PX"}
\* Concurrent callers, each with a session of its own.
Procs == {"c1", "c2"}

VARIABLES
  inventario,  \* the inventario table: id -> row (committed state)
  nextId,      \* next fresh Inventario.id
  reloj,       \* datetime.utcnow(), a logical clock
  pend,        \* the session's modified, not yet committed objects: id -> cantidad
  ult,         \* the last service call: arguments, outcome, table before it
  pc,          \* concurrent callers: where each caller's call stands
  loc,         \* concurrent callers: each call's arguments, session and result
  hist,        \* concurrent callers: the table at start and after each finished call
  producto,    \* the producto table: sku -> row (sku is unique)
  carga,       \* the last bulk ingestion: feed, outcome, producto table before it
  entrega,     \* the push delivery being answered: message, status, what ran
  entregado,   \* the delivery before it: message and producto table after it
  redis,       \* the cache: key -> stored value
  resp         \* the last product-detail request: arguments, response, accesses

vars == <<inventario, nextId, reloj, pend, ult, pc, loc, hist, producto, carga,
          entrega, entregado, redis, resp>>
pushVars == <<entrega, entregado>>
cacheVars == <<redis, resp>>
frontVars == <<entrega, entregado, redis, resp>>
ledgerVars == <<inventario, nextId, reloj, pend, ult, pc, loc, hist>>
csvVars == <<producto, carga>>
concVars == <<pc, loc, hist>>
seqVars == <<pend, ult>>

\* ----------------------------------------------------------------- helpers
Min(a, b) == IF a <= b THEN a ELSE b

RECURSIVE SumaSobre(_, _)
\* Sum of f[x] over the finite set S.
SumaSobre(f, S) ==
  IF S = {} THEN 0
  ELSE LET x == CHOOSE y \in S : TRUE IN f[x] + SumaSobre(f, S \ {x})

RECURSIVE SumaTomas(_)
\* Sum of the quantities of a consumos list.
SumaTomas(cs) == IF cs = <<>> THEN 0 ELSE Head(cs)[2] + SumaTomas(Tail(cs))

\* What the session sees as cantidad of each row it can load: its own pending
\* value when it holds the object modified, the table's value otherwise.
Vista(tabla, sucios) ==
  [id \in DOMAIN tabla |->
     IF id \in DOMAIN sucios THEN sucios[id] ELSE tabla[id].cantidad]

\* ORDER BY Lote.vencimiento IS NULL, Lote.vencimiento ASC,
\*          Inventario.fecha_ingreso ASC : row a sorts strictly before row b.
OrdenaAntes(a, b) ==
  LET va == Lote[a.lote_id].vencimiento
      vb == Lote[b.lote_id].vencimiento
  IN  IF (va = None) # (vb = None) THEN vb = None
      ELSE IF va # None /\ va[1] # vb[1] THEN va[1] < vb[1]
      ELSE a.fecha_ingreso < b.fecha_ingreso

\* The query without the location filter.
SeleccionSinUbicacion(tabla, producto_id, ubicacion_id) ==
  { id \in DOMAIN tabla :
      /\ Lote[tabla[id].lote_id].producto_id = producto_id
      /\ tabla[id].estado = DISPONIBLE }

\* The rows the FEFO query selects: DISPONIBLE rows of lots of the product,
\* at the given location when one is given.
Seleccion(tabla, producto_id, ubicacion_id) ==
  { id \in DOMAIN tabla :
      /\ Lote[tabla[id].lote_id].producto_id = producto_id
      /\ tabla[id].estado = DISPONIBLE
      /\ (ubicacion_id # None => tabla[id].ubicacion_id = ubicacion_id[1]) }

\* The orders in which the query may return the rows of S (rows with equal
\* sort keys come in any order).
OrdenesFefo(tabla, S) ==
  { s \in [1..Cardinality(S) -> S] :
      /\ \A i, j \in DOMAIN s : i # j => s[i] # s[j]
      /\ \A i, j \in DOMAIN s : i < j => ~OrdenaAntes(tabla[s[j]], tabla[s[i]]) }

RECURSIVE Recorrer(_, _, _, _)
\* The walk over registros: [vista, restante, consumos] at its end.
Recorrer(registros, vista, restante, consumos) ==
  IF registros = <<>> \/ restante = 0
  THEN [vista |-> vista, restante |-> restante, consumos |-> consumos]
  ELSE LET id == Head(registros)
           toma == Min(vista[id], restante)
       IN  IF toma <= 0
           THEN Recorrer(Tail(registros), vista, restante, consumos)
           ELSE Recorrer(Tail(registros),
                         [vista EXCEPT ![id] = @ - toma],
                         restante - toma,
                         Append(consumos, <<id, toma>>))

\* session.commit(): the flush writes every modified object's cantidad,
\* deletes the objects marked deleted and inserts the new ones.
Commit(tabla, sucios, borrados, nuevos) ==
  [id \in ((DOMAIN tabla) \ borrados) \cup DOMAIN nuevos |->
     IF id \in DOMAIN nuevos THEN nuevos[id]
     ELSE IF id \in DOMAIN sucios
          THEN [tabla[id] EXCEPT !.cantidad = sucios[id]]
          ELSE tabla[id]]

Vacio == [x \in {} |-> 0]

NoDevuelto == [id |-> 0, cantidad |-> 0]

\* The record of a call of recibir_entrada: arguments, error message or "ok",
\* the returned row, and the table before the call.
LlamadaEntrada(lote_id, ubicacion_id, cantidad, estado, res, devuelto) ==
  [op |-> "entrada", lote_id |-> lote_id, ubicacion_id |-> ubicacion_id,
   estado |-> estado, producto_id |-> "", filtro |-> None,
   cantidad |-> cantidad, res |-> res, consumos |-> <<>>,
   devuelto |-> devuelto, total |-> 0, lotes |-> <<>>, antes |-> inventario]

\* The record of a call of salida_por_fefo.
LlamadaFefo(producto_id, cantidad, ubicacion_id, res, consumos) ==
  [op |-> "fefo", lote_id |-> "", ubicacion_id |-> "", estado |-> "",
   producto_id |-> producto_id, filtro |-> ubicacion_id,
   cantidad |-> cantidad, res |-> res, consumos |-> consumos,
   devuelto |-> NoDevuelto, total |-> 0, lotes |-> <<>>, antes |-> inventario]

\* The record of a query: the product asked for, error message or "ok", the
\* total returned and, for producto_detalle, the lots returned.
LlamadaConsulta(op, producto_id, res, total, lotes) ==
  [op |-> op, lote_id |-> "", ubicacion_id |-> "", estado |-> "",
   producto_id |-> producto_id, filtro |-> None,
   cantidad |-> 0, res |-> res, consumos |-> <<>>,
   devuelto |-> NoDevuelto, total |-> total, lotes |-> lotes,
   antes |-> inventario]

\* No call outstanding.
Ninguna ==
  [op |-> "ninguna", lote_id |-> "", ubicacion_id |-> "", estado |-> "",
   producto_id |-> "", filtro |-> None, cantidad |-> 0, res |-> "ok",
   consumos |-> <<>>, devuelto |-> NoDevuelto, total |-> 0, lotes |-> <<>>,
   antes |-> Vacio]

\* No bulk ingestion outstanding.
NingunaCarga ==
  [entrada |-> "ninguna", cabecera |-> {}, filas |-> <<>>, res |-> "",
   total |-> 0, insertados |-> 0, errores |-> <<>>, bitacora |-> <<>>,
   enviados |-> <<>>, antes |-> Vacio]

\* No push delivery outstanding.
NingunaEntrega ==
  [mensaje |-> None, sesion |-> "", status |-> 0, traza |-> "",
   llamadas |-> <<>>, antes |-> Vacio]

\* No push delivery answered yet.
NingunaEntregada == [mensaje |-> None, despues |-> Vacio]

\* No product-detail request outstanding.
NingunaRespuesta ==
  [producto_id |-> "", country |-> "", cliente |-> FALSE, set |-> "",
   status |-> 0, cuerpo |-> None, cached |-> None,
   consultas |-> 0, escrituras |-> <<>>]

\* ------------------------------------------------------------------ actions
\* A caller that has not called yet.
Libre ==
  [op |-> "ninguna", lote_id |-> "", ubicacion_id |-> "", estado |-> "",
   producto_id |-> "", filtro |-> None, cantidad |-> 0,
   registros |-> <<>>, vista |-> Vacio, hallado |-> None,
   leyo |-> FALSE, visto |-> Vacio,
   res |-> "", consumos |-> <<>>, devuelto |-> NoDevuelto]

Init ==
  /\ inventario = Vacio
  /\ nextId = 1
  /\ reloj = 1
  /\ pend = Vacio
  /\ ult = Ninguna
  /\ pc = [p \in Procs |-> "libre"]
  /\ loc = [p \in Procs |-> Libre]
  /\ hist = <<Vacio>>
  /\ producto = Vacio
  /\ carga = NingunaCarga
  /\ entrega = NingunaEntrega
  /\ entregado = NingunaEntregada
  /\ redis = Vacio
  /\ resp = NingunaRespuesta

\* The validation with the comparison weakened: 0 is let through.
CantidadInvalidaMal(cantidad) == cantidad < 0

\* if cantidad <= 0: raise ValueError("Cantidad debe ser positiva")
CantidadInvalida(cantidad) == cantidad <= 0

\* lote = session.get(Lote, lote_id)
LoteExiste(lote_id) == lote_id \in LoteIds

\* The location check left out: every ubicacion_id is taken as existing.
UbicacionExisteMal(ubicacion_id) == TRUE

\* ubic = session.get(Ubicacion, ubicacion_id)
UbicacionExiste(ubicacion_id) == ubicacion_id \in UbicacionIds

\* The lookup with lote_id compared against the wrong column: it finds nothing.
BuscarInventarioMal(tabla, lote_id, ubicacion_id, estado) ==
  { id \in DOMAIN tabla :
      /\ tabla[id].lote_id = ubicacion_id
      /\ tabla[id].ubicacion_id = ubicacion_id
      /\ tabla[id].estado = estado }

\* select(Inventario).where(lote_id ==, ubicacion_id ==, estado ==)
BuscarInventario(tabla, lote_id, ubicacion_id, estado) ==
  { id \in DOMAIN tabla :
      /\ tabla[id].lote_id = lote_id
      /\ tabla[id].ubicacion_id = ubicacion_id
      /\ tabla[id].estado = estado }

\* A column that takes the time of every update (onupdate=datetime.utcnow).
fecha_ingreso_onupdate(fila, ahora) == ahora

\* fecha_ingreso = mapped_column(DateTime, default=datetime.utcnow): the
\* default applies when the row is inserted; an update of cantidad leaves the
\* column as it is.
fecha_ingreso_al_actualizar(fila, ahora) == fila.fecha_ingreso

\* recibir_entrada(session, lote_id, ubicacion_id, cantidad, estado)
recibir_entrada(lote_id, ubicacion_id, cantidad, estado) ==
  LET falla(msg) ==
        /\ ult' = LlamadaEntrada(lote_id, ubicacion_id, cantidad, estado,
                                 msg, NoDevuelto)
        /\ UNCHANGED <<inventario, nextId, reloj, pend>>
      hallados == BuscarInventario(inventario, lote_id, ubicacion_id, estado)
      vista == Vista(inventario, pend)
  IN
  IF CantidadInvalida(cantidad) THEN falla("Cantidad debe ser positiva")
  ELSE IF ~LoteExiste(lote_id) THEN falla("Lote no existe")
  ELSE IF ~UbicacionExiste(ubicacion_id) THEN falla("Ubicacion no existe")
  ELSE IF hallados # {}
  THEN \E id \in hallados :
         LET nueva == vista[id] + cantidad
             escrita == Commit(inventario, [x \in DOMAIN pend \cup {id} |->
                                              IF x = id THEN nueva ELSE pend[x]],
                               {}, Vacio)
             tabla == [escrita EXCEPT ![id].fecha_ingreso =
                         fecha_ingreso_al_actualizar(inventario[id], reloj)]
         IN  /\ nueva <= MaxCantidad
             /\ inventario' = tabla
             /\ pend' = Vacio
             /\ ult' = LlamadaEntrada(lote_id, ubicacion_id, cantidad, estado,
                          "ok", [id |-> id, cantidad |-> tabla[id].cantidad])
             /\ UNCHANGED <<nextId, reloj>>
  ELSE LET fila == [lote_id |-> lote_id, ubicacion_id |-> ubicacion_id,
                    estado |-> estado, cantidad |-> cantidad,
                    fecha_ingreso |-> reloj]
           tabla == Commit(inventario, pend, {}, [x \in {nextId} |-> fila])
       IN  /\ nextId <= MaxId
           /\ cantidad <= MaxCantidad
           /\ inventario' = tabla
           /\ nextId' = nextId + 1
           /\ reloj' = reloj + 1
           /\ pend' = Vacio
           /\ ult' = LlamadaEntrada(lote_id, ubicacion_id, cantidad, estado,
                        "ok", [id |-> nextId, cantidad |-> tabla[nextId].cantidad])

\* The check with the comparison turned around: it never raises.
StockInsuficienteMal(restante) == restante < 0

\* if restante > 0: raise ValueError("Stock insuficiente total")
StockInsuficienteTotal(restante) == restante > 0

\* for inv, _ in consumos: if inv.cantidad == 0: session.delete(inv)
Borrados(consumos, vista) ==
  { id \in { consumos[i][1] : i \in DOMAIN consumos } : vista[id] = 0 }

\* salida_por_fefo(session, producto_id, cantidad, ubicacion_id)
salida_por_fefo(producto_id, cantidad, ubicacion_id) ==
  IF CantidadInvalida(cantidad)
  THEN /\ ult' = LlamadaFefo(producto_id, cantidad, ubicacion_id,
                             "Cantidad debe ser positiva", <<>>)
       /\ UNCHANGED <<inventario, nextId, reloj, pend>>
  ELSE \E registros \in OrdenesFefo(inventario,
                                    Seleccion(inventario, producto_id, ubicacion_id)) :
         LET vista == Vista(inventario, pend)
             fin == Recorrer(registros, vista, cantidad, <<>>)
             tocados == { fin.consumos[i][1] : i \in DOMAIN fin.consumos }
             sucios == [id \in DOMAIN pend \cup tocados |-> fin.vista[id]]
         IN  IF StockInsuficienteTotal(fin.restante)
             THEN /\ pend' = sucios
                  /\ ult' = LlamadaFefo(producto_id, cantidad, ubicacion_id,
                                        "Stock insuficiente total", <<>>)
                  /\ UNCHANGED <<inventario, nextId, reloj>>
             ELSE /\ inventario' = Commit(inventario, sucios,
                                          Borrados(fin.consumos, fin.vista), Vacio)
                  /\ pend' = Vacio
                  /\ ult' = LlamadaFefo(producto_id, cantidad, ubicacion_id,
                                        "ok", fin.consumos)
                  /\ UNCHANGED <<nextId, reloj>>

\* SELECT coalesce(sum(cantidad), 0) over the product's DISPONIBLE rows.
stock_por_producto(tabla, producto_id) ==
  SumaSobre([id \in DOMAIN tabla |-> tabla[id].cantidad],
            Seleccion(tabla, producto_id, None))

\* producto_detalle's total restricted to DISPONIBLE rows.
StockTotalDisponible(tabla, producto_id) == stock_por_producto(tabla, producto_id)

\* producto_detalle: select coalesce(sum(Inventario.cantidad), 0)
\*   join Inventario.lote where Lote.producto_id == producto_id
StockTotal(tabla, producto_id) ==
  SumaSobre([id \in DOMAIN tabla |-> tabla[id].cantidad],
            { id \in DOMAIN tabla :
                Lote[tabla[id].lote_id].producto_id = producto_id })

\* ORDER BY Lote.vencimiento ASC NULLS LAST: lot a sorts strictly before lot b.
VenceAntes(a, b) ==
  LET va == Lote[a].vencimiento
      vb == Lote[b].vencimiento
  IN  IF (va = None) # (vb = None) THEN vb = None
      ELSE va # None /\ va[1] < vb[1]

\* producto_detalle: the lots of the product, outer-joined with their
\* inventario rows, grouped by lot, in the query's order.
LotesConCantidad(tabla, producto_id) ==
  LET S == { l \in LoteIds : Lote[l].producto_id = producto_id }
      orden == CHOOSE s \in [1..Cardinality(S) -> S] :
                 /\ \A i, j \in DOMAIN s : i # j => s[i] # s[j]
                 /\ \A i, j \in DOMAIN s : i < j => ~VenceAntes(s[j], s[i])
  IN  [i \in 1..Cardinality(S) |->
         [id |-> orden[i],
          cantidad_total |->
            SumaSobre([id \in DOMAIN tabla |-> tabla[id].cantidad],
                      { id \in DOMAIN tabla : tabla[id].lote_id = orden[i] })]]

\* producto_detalle(session, producto_id)
producto_detalle(producto_id) ==
  /\ ult' = IF producto_id \notin ProductoIds
            THEN LlamadaConsulta("detalle", producto_id,
                                 "Producto no encontrado", 0, <<>>)
            ELSE LlamadaConsulta("detalle", producto_id, "ok",
                                 StockTotal(inventario, producto_id),
                                 LotesConCantidad(inventario, producto_id))
  /\ UNCHANGED <<inventario, nextId, reloj, pend>>

\* The join restricted to DISPONIBLE rows.
FilasEnUbicacionDisponibles(tabla, producto_id, ubicacion_id) ==
  { id \in Seleccion(tabla, producto_id, None) :
      tabla[id].ubicacion_id = ubicacion_id }

\* ubicaciones_con_stock_por_producto: the inventario rows the joins pair
\* with a ubicacion, for the lots of the product.
FilasEnUbicacion(tabla, producto_id, ubicacion_id) ==
  { id \in DOMAIN tabla :
      /\ Lote[tabla[id].lote_id].producto_id = producto_id
      /\ tabla[id].ubicacion_id = ubicacion_id }

\* ubicaciones_con_stock_por_producto(session, producto_id): one row for each
\* ubicacion with rows of the product whose cantidad sums to more than 0,
\* ordered by ciudad, pasillo, estante, posicion.
ubicaciones_con_stock_por_producto(tabla, producto_id) ==
  LET suma(u) == SumaSobre([id \in DOMAIN tabla |-> tabla[id].cantidad],
                           FilasEnUbicacion(tabla, producto_id, u))
      S == { u \in UbicacionIds :
               /\ FilasEnUbicacion(tabla, producto_id, u) # {}
               /\ suma(u) > 0 }
      orden == CHOOSE s \in [1..Cardinality(S) -> S] :
                 /\ \A i, j \in DOMAIN s : i # j => s[i] # s[j]
                 /\ \A i, j \in DOMAIN s :
                      i < j => Ubicacion[s[i]].puesto <= Ubicacion[s[j]].puesto
  IN  [i \in 1..Cardinality(S) |->
         [ubicacion_id |-> orden[i],
          bodega_id |-> Ubicacion[orden[i]].bodega_id,
          ciudad |-> Ubicacion[orden[i]].ciudad,
          cantidad |-> suma(orden[i])]]

\* The locations query: ubicaciones_con_stock_por_producto(session, producto_id).
consulta_ubicaciones(producto_id) ==
  /\ ult' = LlamadaConsulta("ubicaciones", producto_id, "ok", 0,
                            ubicaciones_con_stock_por_producto(inventario,
                                                               producto_id))
  /\ UNCHANGED <<inventario, nextId, reloj, pend>>

\* The stock query: stock_por_producto(session, producto_id).
consulta_stock(producto_id) ==
  /\ ult' = LlamadaConsulta("stock", producto_id, "ok",
                            stock_por_producto(inventario, producto_id), <<>>)
  /\ UNCHANGED <<inventario, nextId, reloj, pend>>

\* session.close(): the session's pending changes are discarded.
cerrar_sesion ==
  /\ ult = Ninguna
  /\ pend # Vacio
  /\ pend' = Vacio
  /\ UNCHANGED <<inventario, nextId, reloj, ult, pc, loc, hist>>
  /\ UNCHANGED <<csvVars, frontVars>>

\* The caller takes the call's result; the next call may start.
retorno ==
  /\ ult # Ninguna
  /\ ult' = Ninguna
  /\ UNCHANGED <<inventario, nextId, reloj, pend, pc, loc, hist>>
  /\ UNCHANGED <<csvVars, frontVars>>

Entrada ==
  /\ ult = Ninguna
  /\ \E e \in Entradas, c \in CantidadesEntrada : recibir_entrada(e[1], e[2], c, e[3])
  /\ UNCHANGED concVars
  /\ UNCHANGED <<csvVars, frontVars>>

Salida ==
  /\ ult = Ninguna
  /\ \E p \in ProductoIds, c \in CantidadesSalida, u \in FiltrosUbicacion :
    salida_por_fefo(p, c, u)
  /\ UNCHANGED concVars
  /\ UNCHANGED <<csvVars, frontVars>>

Stock ==
  /\ ult = Ninguna
  /\ \E p \in ProductosConsulta : consulta_stock(p)
  /\ UNCHANGED concVars
  /\ UNCHANGED <<csvVars, frontVars>>

Detalle ==
  /\ ult = Ninguna
  /\ \E p \in ProductosConsulta : producto_detalle(p)
  /\ UNCHANGED concVars
  /\ UNCHANGED <<csvVars, frontVars>>

Ubicaciones ==
  /\ ult = Ninguna
  /\ \E p \in ProductosConsulta : consulta_ubicaciones(p)
  /\ UNCHANGED concVars
  /\ UNCHANGED <<csvVars, frontVars>>

Next ==
  Entrada \/ Salida \/ Stock \/ Detalle \/ Ubicaciones \/ cerrar_sesion \/ retorno

Spec == Init /\ [][Next]_vars

\* ------------------------------------------------------- concurrent callers
\* Two callers, each in a request of its own with a fresh session, run one
\* call each. A call reads the table with its SELECT, works on the objects
\* it loaded, and writes with session.commit(); the other caller's steps may
\* fall between the two. Neither function locks the rows it read.

\* The table of the service tests' fixture setup_completo (quantities scaled):
\* L1 at U1 and L2 at U1, both DISPONIBLE.
LibroFixture ==
  <<[lote_id |-> "L1", ubicacion_id |-> "U1", estado |-> DISPONIBLE,
     cantidad |-> 2, fecha_ingreso |-> 1],
    [lote_id |-> "L2", ubicacion_id |-> "U1", estado |-> DISPONIBLE,
     cantidad |-> 1, fecha_ingreso |-> 2]>>
LibrosIniciales == {Vacio, LibroFixture}

InitConc ==
  /\ inventario \in LibrosIniciales
  /\ nextId = Len(inventario) + 1
  /\ reloj = Len(inventario) + 1
  /\ pend = Vacio
  /\ ult = Ninguna
  /\ pc = [p \in Procs |-> "libre"]
  /\ loc = [p \in Procs |-> Libre]
  /\ hist = <<inventario>>
  /\ producto = Vacio
  /\ carga = NingunaCarga
  /\ entrega = NingunaEntrega
  /\ entregado = NingunaEntregada
  /\ redis = Vacio
  /\ resp = NingunaRespuesta

\* The flush's UPDATE of a row that is no longer in the table matches no row:
\* StaleDataError, and the transaction is rolled back.
DatosViejos(tabla, sucios, borrados) ==
  \E id \in (DOMAIN sucios) \ borrados : id \notin DOMAIN tabla

Termina(p, l) ==
  /\ pc' = [pc EXCEPT ![p] = "fin"]
  /\ loc' = [loc EXCEPT ![p] = l]

\* salida_por_fefo up to registros = list(session.scalars(q)).
fefo_leer(p, producto_id, cantidad, ubicacion_id) ==
  /\ pc[p] = "libre"
  /\ LET l == [Libre EXCEPT !.op = "fefo", !.producto_id = producto_id,
                            !.filtro = ubicacion_id, !.cantidad = cantidad]
     IN
     IF CantidadInvalida(cantidad)
     THEN /\ Termina(p, [l EXCEPT !.res = "Cantidad debe ser positiva"])
          /\ UNCHANGED <<inventario, nextId, reloj, hist>>
     ELSE \E registros \in OrdenesFefo(inventario,
                             Seleccion(inventario, producto_id, ubicacion_id)) :
            /\ pc' = [pc EXCEPT ![p] = "leido"]
            /\ loc' = [loc EXCEPT ![p] =
                         [l EXCEPT !.registros = registros,
                                   !.vista = Vista(inventario, Vacio),
                                   !.leyo = TRUE, !.visto = inventario]]
            /\ UNCHANGED <<inventario, nextId, reloj, hist>>
  /\ UNCHANGED seqVars

\* salida_por_fefo with session.commit() moved into the loop: every row's
\* decrement or deletion is committed on its own.
fefo_escribir_por_fila(p) ==
  /\ pc[p] = "leido"
  /\ loc[p].op = "fefo"
  /\ LET l == loc[p] IN
     IF l.registros = <<>> \/ l.cantidad = 0
     THEN /\ Termina(p, [l EXCEPT !.res = IF StockInsuficienteTotal(l.cantidad)
                                          THEN "Stock insuficiente total"
                                          ELSE "ok"])
          /\ hist' = Append(hist, inventario)
          /\ UNCHANGED <<inventario, nextId, reloj>>
     ELSE LET id == Head(l.registros)
              toma == Min(l.vista[id], l.cantidad)
              sucios == [x \in {id} |-> l.vista[id] - toma]
              borrados == IF l.vista[id] = toma THEN {id} ELSE {}
          IN  /\ inventario' = Commit(inventario, sucios, borrados, Vacio)
              /\ loc' = [loc EXCEPT ![p] =
                           [l EXCEPT !.registros = Tail(l.registros),
                                     !.cantidad = l.cantidad - toma,
                                     !.consumos = Append(l.consumos, <<id, toma>>)]]
              /\ UNCHANGED <<pc, nextId, reloj, hist>>
  /\ UNCHANGED seqVars

\* salida_por_fefo from the walk to session.commit().
fefo_escribir(p) ==
  /\ pc[p] = "leido"
  /\ loc[p].op = "fefo"
  /\ LET l == loc[p]
         fin == Recorrer(l.registros, l.vista, l.cantidad, <<>>)
         tocados == { fin.consumos[i][1] : i \in DOMAIN fin.consumos }
         sucios == [id \in tocados |-> fin.vista[id]]
         borrados == Borrados(fin.consumos, fin.vista)
     IN
     IF StockInsuficienteTotal(fin.restante)
     THEN /\ Termina(p, [l EXCEPT !.res = "Stock insuficiente total"])
          /\ UNCHANGED <<inventario, nextId, reloj, hist>>
     ELSE IF DatosViejos(inventario, sucios, borrados)
     THEN /\ Termina(p, [l EXCEPT !.res = "StaleDataError"])
          /\ UNCHANGED <<inventario, nextId, reloj, hist>>
     ELSE /\ inventario' = Commit(inventario, sucios, borrados, Vacio)
          /\ hist' = Append(hist, inventario')
          /\ Termina(p, [l EXCEPT !.res = "ok", !.consumos = fin.consumos])
          /\ UNCHANGED <<nextId, reloj>>
  /\ UNCHANGED seqVars

\* recibir_entrada up to inv = session.scalar(select(Inventario).where(...)).
entrada_leer(p, lote_id, ubicacion_id, cantidad, estado) ==
  /\ pc[p] = "libre"
  /\ LET l == [Libre EXCEPT !.op = "entrada", !.lote_id = lote_id,
                            !.ubicacion_id = ubicacion_id, !.estado = estado,
                            !.cantidad = cantidad]
         hallados == BuscarInventario(inventario, lote_id, ubicacion_id, estado)
         falla(msg) == Termina(p, [l EXCEPT !.res = msg])
     IN
     IF CantidadInvalida(cantidad) THEN falla("Cantidad debe ser positiva")
     ELSE IF ~LoteExiste(lote_id) THEN falla("Lote no existe")
     ELSE IF ~UbicacionExiste(ubicacion_id) THEN falla("Ubicacion no existe")
     ELSE /\ pc' = [pc EXCEPT ![p] = "leido"]
          /\ \E h \in (IF hallados = {} THEN {None}
                       ELSE { Some(id) : id \in hallados }) :
               loc' = [loc EXCEPT ![p] =
                         [l EXCEPT !.hallado = h,
                                   !.vista = Vista(inventario, Vacio),
                                   !.leyo = TRUE, !.visto = inventario]]
  /\ UNCHANGED <<inventario, nextId, reloj, hist>>
  /\ UNCHANGED seqVars

\* recibir_entrada from "if inv:" to session.refresh(inv).
entrada_escribir(p) ==
  /\ pc[p] = "leido"
  /\ loc[p].op = "entrada"
  /\ LET l == loc[p] IN
     IF l.hallado # None
     THEN LET id == l.hallado[1]
              nueva == l.vista[id] + l.cantidad
              sucios == [x \in {id} |-> nueva]
          IN  IF DatosViejos(inventario, sucios, {})
              THEN /\ Termina(p, [l EXCEPT !.res = "StaleDataError"])
                   /\ UNCHANGED <<inventario, nextId, reloj, hist>>
              ELSE /\ nueva <= MaxCantidad
                   /\ inventario' = Commit(inventario, sucios, {}, Vacio)
                   /\ hist' = Append(hist, inventario')
                   /\ Termina(p, [l EXCEPT !.res = "ok",
                                    !.devuelto = [id |-> id, cantidad |-> nueva]])
                   /\ UNCHANGED <<nextId, reloj>>
     ELSE LET fila == [lote_id |-> l.lote_id, ubicacion_id |-> l.ubicacion_id,
                       estado |-> l.estado, cantidad |-> l.cantidad,
                       fecha_ingreso |-> reloj]
          IN  /\ nextId <= MaxId
              /\ l.cantidad <= MaxCantidad
              /\ inventario' = Commit(inventario, Vacio, {},
                                      [x \in {nextId} |-> fila])
              /\ hist' = Append(hist, inventario')
              /\ nextId' = nextId + 1
              /\ reloj' = reloj + 1
              /\ Termina(p, [l EXCEPT !.res = "ok",
                               !.devuelto = [id |-> nextId,
                                             cantidad |-> l.cantidad]])
  /\ UNCHANGED seqVars

\* A caller runs the stock query.
consultar(p, producto_id) ==
  /\ pc[p] = "libre"
  /\ Termina(p, [Libre EXCEPT !.op = "stock", !.producto_id = producto_id,
                   !.leyo = TRUE, !.visto = inventario, !.res = "ok",
                   !.cantidad = stock_por_producto(inventario, producto_id)])
  /\ UNCHANGED <<inventario, nextId, reloj, hist>>
  /\ UNCHANGED seqVars

FefoLeer ==
  /\ \E p \in Procs, pr \in ProductoIds, c \in CantidadesSalida,
        u \in FiltrosUbicacion : fefo_leer(p, pr, c, u)
  /\ UNCHANGED <<csvVars, frontVars>>
FefoEscribir ==
  /\ \E p \in Procs : fefo_escribir(p)
  /\ UNCHANGED <<csvVars, frontVars>>
EntradaLeer ==
  /\ \E p \in Procs, e \in Entradas, c \in CantidadesEntrada :
        entrada_leer(p, e[1], e[2], c, e[3])
  /\ UNCHANGED <<csvVars, frontVars>>
EntradaEscribir ==
  /\ \E p \in Procs : entrada_escribir(p)
  /\ UNCHANGED <<csvVars, frontVars>>
Consultar ==
  /\ \E p \in Procs, pr \in ProductoIds : consultar(p, pr)
  /\ UNCHANGED <<csvVars, frontVars>>

NextConc ==
  FefoLeer \/ FefoEscribir \/ EntradaLeer \/ EntradaEscribir \/ Consultar

SpecConc == InitConc /\ [][NextConc]_vars

\* ------------------------------------------------------------ bulk ingestion
\* Ingestion of a product feed into the producto table, through its two entry
\* points: the upload endpoint (routes: _validate_headers, _process_rows) and
\* the service function procesar_csv_productos, which also sends a supplier
\* association for every row through MsClient.

\* _REQUIRED_HEADERS of the service.
REQUIRED_HEADERS_SERVICIO ==
  {"sku", "nombre", "categoria", "temp_min", "temp_max", "controlado",
   "precio", "moneda", "lead_time_dias", "lote_minimo", "activo"}

\* REQUIRED_HEADERS of the upload endpoint.
REQUIRED_HEADERS ==
  {"sku", "nombre", "categoria", "temp_min", "temp_max", "controlado"}

\* Header rows offered: complete, without "precio", without "categoria".
Cabeceras ==
  { REQUIRED_HEADERS_SERVICIO,
    REQUIRED_HEADERS_SERVICIO \ {"precio"},
    REQUIRED_HEADERS_SERVICIO \ {"categoria"} }

\* Data rows offered (the columns not shown hold valid values).
FilaBuena(sku) ==
  [sku |-> sku, nombre |-> "N", categoria |-> "C", temp_min |-> "1,5",
   controlado |-> "true", precio |-> "10"]
Filas ==
  { FilaBuena("A"),
    FilaBuena(" B"),
    FilaBuena(" "),
    [FilaBuena("B") EXCEPT !.categoria = " "],
    [FilaBuena("A") EXCEPT !.temp_min = "abc"],
    [FilaBuena("B") EXCEPT !.precio = ""] }

\* Feeds: up to MaxFilas data rows.
Feeds == UNION { [1..n -> Filas] : n \in 0..MaxFilas }

\* What a call of MsClient.post may do: return, or raise on an HTTP error or
\* on a timeout.
PostResultados == {"ok", "error_http", "timeout"}

\* str.strip()
Strip(s) ==
  CASE s = " " -> ""
    [] s = " A" -> "A"
    [] s = " B" -> "B"
    [] OTHER -> s

\* _to_float: None for a blank field, comma or dot as decimal separator,
\* ValueError for anything float() does not read. valor is in tenths.
to_float(val) ==
  CASE val = "" -> [error |-> "", valor |-> None]
    [] val = "1,5" -> [error |-> "", valor |-> Some(15)]
    [] val = "10" -> [error |-> "", valor |-> Some(100)]
    [] OTHER -> [error |-> "could not convert string to float", valor |-> None]

\* _to_bool of the service: token sets, digits, ValueError otherwise.
to_bool(val) ==
  CASE val \in {"true", "1", "si", "yes"} -> [error |-> "", valor |-> Some(TRUE)]
    [] val \in {"false", "0", "no"} -> [error |-> "", valor |-> Some(FALSE)]
    [] OTHER -> [error |-> "Valor booleano invalido", valor |-> None]

\* _get_producto_por_sku
get_producto_por_sku(tabla, sku) ==
  IF sku \in DOMAIN tabla THEN Some(tabla[sku].id) ELSE None

\* crear_producto: INSERT and commit; the unique index on sku turns a second
\* row with the same sku into ValueError("SKU ya existe").
crear_producto(tabla, sku, nombre, categoria) ==
  IF sku \in DOMAIN tabla
  THEN [error |-> "SKU ya existe", tabla |-> tabla, id |-> 0]
  ELSE LET id == Cardinality(DOMAIN tabla) + 1
       IN  [error |-> "",
            tabla |-> [x \in DOMAIN tabla \cup {sku} |->
                         IF x = sku
                         THEN [id |-> id, nombre |-> nombre,
                               categoria |-> categoria]
                         ELSE tabla[x]],
            id |-> id]

\* crear_o_recuperar_producto: look the sku up, create when it is not there.
crear_o_recuperar_producto(tabla, sku, nombre, categoria) ==
  LET existente == get_producto_por_sku(tabla, sku)
  IN  IF existente # None
      THEN [error |-> "", tabla |-> tabla, id |-> existente[1]]
      ELSE crear_producto(tabla, sku, nombre, categoria)

\* _row_to_core: trimmed texts and converted values; no blank check.
row_to_core(row) ==
  [error |-> IF to_float(row.temp_min).error # ""
             THEN to_float(row.temp_min).error
             ELSE to_bool(row.controlado).error,
   sku |-> Strip(row.sku), nombre |-> Strip(row.nombre),
   categoria |-> Strip(row.categoria)]

\* _row_to_asociacion: the payload for the supplier, ValueError when a
\* required field is blank.
row_to_asociacion(row, producto_id) ==
  [error |-> IF Strip(row.sku) = ""
             THEN "Campo requerido vacio en asociacion: sku"
             ELSE IF to_float(row.precio).error # ""
             THEN to_float(row.precio).error
             ELSE IF to_float(row.precio).valor = None
             THEN "Campo requerido vacio en asociacion: precio"
             ELSE "",
   payload |-> [producto_id |-> producto_id, sku_proveedor |-> Strip(row.sku)]]

\* crear_producto without its session.commit(): what the row wrote is undone
\* when the row ends in the except branch.
SinCommit(antes, despues) == antes

\* crear_producto's session.add(p); session.commit(): the batch state after
\* the upsert stands, whatever the rest of the row's try block does.
TrasCommit(antes, despues) == despues

\* The running state of a batch.
CargaInicial(tabla) ==
  [producto |-> tabla, total |-> 0, insertados |-> 0, errores |-> <<>>,
   bitacora |-> <<>>, enviados |-> <<>>]

\* One line of the batch's log: what happened to the row.
Nota(linea, sku, upsert, id, asoc) ==
  [linea |-> linea, sku |-> sku, upsert |-> upsert, id |-> id, asoc |-> asoc]

\* The except branch that drops the row's error instead of recording it.
AcumularSinError(st, linea, error, nota) ==
  [st EXCEPT !.insertados = IF error = "" THEN @ + 1 ELSE @,
             !.bitacora = Append(@, nota)]

\* try: ... insertados += 1 / except Exception as e: errores.append(...)
Acumular(st, linea, error, nota) ==
  [st EXCEPT !.insertados = IF error = "" THEN @ + 1 ELSE @,
             !.errores = IF error = "" THEN @
                         ELSE Append(@, [linea |-> linea, error |-> error]),
             !.bitacora = Append(@, nota)]

\* _process_rows: inserted += 1 / except: errors.append({"linea": idx,
\* "sku": (row.get("sku") or "").strip(), "error": ...}); the entry carries
\* the row's sku, which the entry of procesar_csv_productos does not.
AcumularHttp(st, linea, error, nota) ==
  [st EXCEPT !.insertados = IF error = "" THEN @ + 1 ELSE @,
             !.errores = IF error = "" THEN @
                         ELSE Append(@, [linea |-> linea, sku |-> nota.sku,
                                         error |-> error]),
             !.bitacora = Append(@, nota)]

\* The body of the loop of procesar_csv_productos for one row; post is what
\* MsClient.post does when it is called.
fila_servicio(st, row, linea, post) ==
  LET st1 == [st EXCEPT !.total = @ + 1]
      core == row_to_core(row)
      up == crear_o_recuperar_producto(st.producto, core.sku, core.nombre,
                                       core.categoria)
      st2 == [st1 EXCEPT !.producto = up.tabla]
      hecho == IF core.sku \in DOMAIN st.producto THEN "existente" ELSE "creado"
      asoc == row_to_asociacion(row, up.id)
  IN  IF core.error # ""
      THEN Acumular(st1, linea, core.error, Nota(linea, core.sku, "no", 0, "no"))
      ELSE IF up.error # ""
      THEN Acumular(st1, linea, up.error, Nota(linea, core.sku, "falla", 0, "no"))
      ELSE IF asoc.error # ""
      THEN Acumular(TrasCommit(st1, st2), linea, asoc.error,
                    Nota(linea, core.sku, hecho, up.id, "campo_vacio"))
      ELSE IF post # "ok"
      THEN Acumular(TrasCommit(st1, st2), linea, post,
                    Nota(linea, core.sku, hecho, up.id, post))
      ELSE Acumular([st2 EXCEPT !.enviados = Append(@, asoc.payload)],
                    linea, "", Nota(linea, core.sku, hecho, up.id, "enviada"))

\* The body of the loop of _process_rows for one row.
fila_http(st, row, linea) ==
  LET st1 == st
      sku == Strip(row.sku)
      nombre == Strip(row.nombre)
      categoria == Strip(row.categoria)
      up == crear_producto(st.producto, sku, nombre, categoria)
  IN  IF to_float(row.temp_min).error # ""
      THEN AcumularHttp(st1, linea, "Error convirtiendo tipos",
                    Nota(linea, sku, "no", 0, "no"))
      ELSE IF sku = "" \/ nombre = "" \/ categoria = ""
      THEN AcumularHttp(st1, linea, "sku, nombre y categoria son obligatorios",
                    Nota(linea, sku, "no", 0, "no"))
      ELSE IF up.error # ""
      THEN AcumularHttp(st1, linea, up.error, Nota(linea, sku, "falla", 0, "no"))
      ELSE AcumularHttp([st1 EXCEPT !.producto = up.tabla], linea, "",
                    Nota(linea, sku, "creado", up.id, "no"))

RECURSIVE ProcesarServicio(_, _, _, _)
\* for idx, row in enumerate(reader, start=2) of procesar_csv_productos
ProcesarServicio(st, filas, linea, posts) ==
  IF filas = <<>> THEN st
  ELSE ProcesarServicio(fila_servicio(st, Head(filas), linea, Head(posts)),
                        Tail(filas), linea + 1, Tail(posts))

RECURSIVE ProcesarHttp(_, _, _)
\* for idx, row in enumerate(reader, start=2) of _process_rows
ProcesarHttp(st, filas, linea) ==
  IF filas = <<>> THEN st
  ELSE ProcesarHttp(fila_http(st, Head(filas), linea), Tail(filas), linea + 1)

\* The header check that looks only for the sku column.
FaltanColumnasSoloSku(requeridas, cabecera) == {"sku"} \ cabecera

\* _validate_headers: the required columns the header row does not have.
FaltanColumnas(requeridas, cabecera) == requeridas \ cabecera

\* The record of a bulk ingestion.
Carga(entrada, cabecera, filas, res, st) ==
  [entrada |-> entrada, cabecera |-> cabecera, filas |-> filas, res |-> res,
   total |-> st.total, insertados |-> st.insertados, errores |-> st.errores,
   bitacora |-> st.bitacora, enviados |-> st.enviados, antes |-> producto]

\* procesar_csv_productos(session, country, proveedor_id, csv_bytes)
procesar_csv_productos(cabecera, filas, posts) ==
  IF FaltanColumnas(REQUIRED_HEADERS_SERVICIO, cabecera) # {}
  THEN /\ carga' = Carga("servicio", cabecera, filas, "Faltan columnas en el CSV",
                         CargaInicial(producto))
       /\ UNCHANGED producto
  ELSE LET st == ProcesarServicio(CargaInicial(producto), filas, 2, posts)
       IN  /\ carga' = Carga("servicio", cabecera, filas, "ok", st)
           /\ producto' = st.producto

\* upload_csv_productos(request, session, file)
upload_csv_productos(cabecera, filas) ==
  IF FaltanColumnas(REQUIRED_HEADERS, cabecera) # {}
  THEN /\ carga' = Carga("http", cabecera, filas, "Faltan columnas en el CSV",
                         CargaInicial(producto))
       /\ UNCHANGED producto
  ELSE LET st == ProcesarHttp(CargaInicial(producto), filas, 2)
       IN  /\ carga' = Carga("http", cabecera, filas, "ok",
                             [st EXCEPT !.total = st.insertados + Len(st.errores)])
           /\ producto' = st.producto

CargaServicio ==
  /\ carga = NingunaCarga
  /\ \E cabecera \in Cabeceras, filas \in Feeds :
       \E posts \in [1..Len(filas) -> PostResultados] :
         procesar_csv_productos(cabecera, filas, posts)
  /\ UNCHANGED <<ledgerVars, frontVars>>

CargaHttp ==
  /\ carga = NingunaCarga
  /\ \E cabecera \in Cabeceras, filas \in Feeds :
       upload_csv_productos(cabecera, filas)
  /\ UNCHANGED <<ledgerVars, frontVars>>

\* The caller takes the batch's result; the next batch may start.
retorno_carga ==
  /\ carga # NingunaCarga
  /\ carga' = NingunaCarga
  /\ UNCHANGED producto
  /\ UNCHANGED <<ledgerVars, frontVars>>

NextCsv == CargaServicio \/ CargaHttp \/ retorno_carga

SpecCsv == Init /\ [][NextCsv]_vars

\* --------------------------------------------------------- concurrent upsert
\* Two callers, each with a session of its own, run crear_o_recuperar_producto.
\* The lookup, the commit of crear_producto and the lookup after a conflict
\* are separate statements: the other caller's steps may fall between them.
\* pc and loc hold the callers' positions and calls, as for the ledger.

\* The skus the callers upsert.
SkusUpsert == {"A", "B", "C"}

\* A caller that has not called yet.
LibreUpsert ==
  [sku |-> "", hallado |-> None, intento |-> FALSE, conflicto |-> FALSE,
   res |-> "", id |-> 0]

InitUpsert ==
  /\ inventario = Vacio
  /\ nextId = 1
  /\ reloj = 1
  /\ pend = Vacio
  /\ ult = Ninguna
  /\ pc = [p \in Procs |-> "libre"]
  /\ loc = [p \in Procs |-> LibreUpsert]
  /\ hist = <<Vacio>>
  /\ producto = Vacio
  /\ carga = NingunaCarga
  /\ entrega = NingunaEntrega
  /\ entregado = NingunaEntregada
  /\ redis = Vacio
  /\ resp = NingunaRespuesta

\* The except branch without its lookup: the conflict is raised again.
SinRecuperar(tabla, sku) == None

\* except ValueError: if "SKU ya existe" in str(e):
\*   existente = _get_producto_por_sku(session, sku)
recuperar_tras_conflicto(tabla, sku) == get_producto_por_sku(tabla, sku)

\* existente = _get_producto_por_sku(session, sku); if existente: return
upsert_buscar(p, sku) ==
  LET existente == get_producto_por_sku(producto, sku)
  IN  /\ pc[p] = "libre"
      /\ IF existente # None
         THEN /\ pc' = [pc EXCEPT ![p] = "fin"]
              /\ loc' = [loc EXCEPT ![p] = [LibreUpsert EXCEPT
                           !.sku = sku, !.hallado = existente,
                           !.res = "ok", !.id = existente[1]]]
         ELSE /\ pc' = [pc EXCEPT ![p] = "buscado"]
              /\ loc' = [loc EXCEPT ![p] = [LibreUpsert EXCEPT !.sku = sku]]
      /\ UNCHANGED producto

\* return crear_producto(session, **core): the commit inserts the row, or the
\* unique index on sku refuses it and the session is rolled back.
upsert_crear(p) ==
  LET up == crear_producto(producto, loc[p].sku, "N", "C")
  IN  /\ pc[p] = "buscado"
      /\ IF up.error = ""
         THEN /\ producto' = up.tabla
              /\ pc' = [pc EXCEPT ![p] = "fin"]
              /\ loc' = [loc EXCEPT ![p].intento = TRUE, ![p].res = "ok",
                                    ![p].id = up.id]
         ELSE /\ pc' = [pc EXCEPT ![p] = "conflicto"]
              /\ loc' = [loc EXCEPT ![p].intento = TRUE, ![p].conflicto = TRUE]
              /\ UNCHANGED producto

\* The except branch: the second lookup returns the row, or the error is
\* raised again.
upsert_recuperar(p) ==
  LET existente == recuperar_tras_conflicto(producto, loc[p].sku)
  IN  /\ pc[p] = "conflicto"
      /\ pc' = [pc EXCEPT ![p] = "fin"]
      /\ loc' = IF existente # None
                THEN [loc EXCEPT ![p].hallado = existente, ![p].res = "ok",
                                 ![p].id = existente[1]]
                ELSE [loc EXCEPT ![p].res = "SKU ya existe"]
      /\ UNCHANGED producto

\* The caller takes the result; it may call again.
upsert_retorno(p) ==
  /\ pc[p] = "fin"
  /\ pc' = [pc EXCEPT ![p] = "libre"]
  /\ loc' = [loc EXCEPT ![p] = LibreUpsert]
  /\ UNCHANGED producto

UpsertBuscar ==
  /\ \E p \in Procs, sku \in SkusUpsert : upsert_buscar(p, sku)
  /\ UNCHANGED <<inventario, nextId, reloj, pend, ult, hist, carga, frontVars>>

UpsertCrear ==
  /\ \E p \in Procs : upsert_crear(p)
  /\ UNCHANGED <<inventario, nextId, reloj, pend, ult, hist, carga, frontVars>>

UpsertRecuperar ==
  /\ \E p \in Procs : upsert_recuperar(p)
  /\ UNCHANGED <<inventario, nextId, reloj, pend, ult, hist, carga, frontVars>>

UpsertRetorno ==
  /\ \E p \in Procs : upsert_retorno(p)
  /\ UNCHANGED <<inventario, nextId, reloj, pend, ult, hist, carga, frontVars>>

NextUpsert == UpsertBuscar \/ UpsertCrear \/ UpsertRecuperar \/ UpsertRetorno

SpecUpsert == InitUpsert /\ [][NextUpsert]_vars

\* ------------------------------------------------------------- push handler
\* handle_pubsub_push of routes/pubsub.py: one delivery of a message. A
\* message is described by what each layer of it holds: the request body, its
\* "message", the decoded "data" (the event), the event's fields.

\* Data rows of the feeds carried by messages.
FilasPush ==
  { FilaBuena("A"), FilaBuena(" B"), [FilaBuena("A") EXCEPT !.temp_min = "abc"] }
FeedsPush == UNION { [1..n -> FilasPush] : n \in 0..MaxFilas }
CabecerasPush == { REQUIRED_HEADERS_SERVICIO, REQUIRED_HEADERS_SERVICIO \ {"precio"} }

\* settings.DEFAULT_SCHEMA
DEFAULT_SCHEMA == "co"

\* A well-formed creacion_masiva_producto message; ctx is "objeto" (country
\* and trace_id given) or "falta".
MensajeBueno(cabecera, filas, ctx) ==
  [cuerpo |-> "objeto", message |-> "objeto", messageId |-> "m1",
   data |-> "objeto", ctx |-> ctx, event |-> "creacion_masiva_producto",
   csv_base64 |-> "valido", proveedor_id |-> "valido",
   cabecera |-> cabecera, filas |-> filas]

\* The messages delivered: the well-formed ones and one message for each way
\* a layer can be absent, undecodable or of another JSON type.
MensajeBase == MensajeBueno(REQUIRED_HEADERS_SERVICIO, <<FilaBuena("A")>>, "objeto")
Mensajes ==
  { MensajeBueno(c, f, x) : c \in CabecerasPush, f \in FeedsPush,
                            x \in {"objeto", "falta"} }
  \cup { [MensajeBase EXCEPT !.cuerpo = v] : v \in {"invalido", "lista"} }
  \cup { [MensajeBase EXCEPT !.message = v] : v \in {"falta", "texto"} }
  \cup { [MensajeBase EXCEPT !.data = v] : v \in {"falta", "invalida", "lista"} }
  \cup { [MensajeBase EXCEPT !.ctx = "texto"] }
  \cup { [MensajeBase EXCEPT !.event = v] : v \in {"", "otro"} }
  \cup { [MensajeBase EXCEPT !.csv_base64 = v] : v \in {"falta", "invalido"} }
  \cup { [MensajeBase EXCEPT !.proveedor_id = v] : v \in {"falta", "invalido"} }

\* What session_for_schema(country) may do: yield a session, or raise.
SesionResultados == {"ok", "falla"}

\* The producto tables a delivery may find.
CatalogoA == crear_producto(Vacio, "A", "N", "C").tabla
CatalogoAB == crear_producto(CatalogoA, "B", "N", "C").tabla
CatalogosIniciales == {Vacio, CatalogoA, CatalogoAB}

\* def procesar_csv_productos(session, country, proveedor_id, csv_bytes)
ParametrosServicio == {"session", "country", "proveedor_id", "csv_bytes"}

\* svc.procesar_csv_productos(session=, country=, proveedor_id=, csv_bytes=,
\*                            trace_id=)
ArgumentosPush == {"session", "country", "proveedor_id", "csv_bytes", "trace_id"}

\* A function that takes whatever keyword it is given.
LlamadaAceptadaSiempre(argumentos, parametros) == TRUE

\* A call with a keyword the function does not declare raises TypeError.
LlamadaAceptada(argumentos, parametros) == argumentos \subseteq parametros

\* country = ctx.country or event.country or settings.DEFAULT_SCHEMA
country_de(m) == IF m.ctx = "objeto" THEN "mx" ELSE DEFAULT_SCHEMA

\* trace_id = ctx.trace_id or event.trace_id or messageId
trace_id_de(m) == IF m.ctx = "objeto" THEN "t1" ELSE m.messageId

\* What a delivery did: status of the response, the branch it ended in, the
\* producto table after it, and the calls of procesar_csv_productos that ran.
Hecho(status, traza, tabla, llamadas) ==
  [status |-> status, traza |-> traza, producto |-> tabla, llamadas |-> llamadas]

\* with session_for_schema(country) as session:
\*   result = svc.procesar_csv_productos(...)
llamar_servicio(tabla, m, sesion, posts) ==
  IF sesion # "ok"
  THEN Hecho(204, "Error procesando: sesion", tabla, <<>>)
  ELSE IF ~LlamadaAceptada(ArgumentosPush, ParametrosServicio)
  THEN Hecho(204, "Error procesando: TypeError", tabla, <<>>)
  ELSE LET llamada == [country |-> country_de(m), proveedor_id |-> m.proveedor_id,
                       trace_id |-> trace_id_de(m),
                       cabecera |-> m.cabecera, filas |-> m.filas]
       IN  IF FaltanColumnas(REQUIRED_HEADERS_SERVICIO, m.cabecera) # {}
           THEN Hecho(204, "Error procesando: Faltan columnas en el CSV",
                      tabla, <<llamada>>)
           ELSE Hecho(204, "Procesamiento CSV finalizado",
                      ProcesarServicio(CargaInicial(tabla), m.filas, 2, posts).producto,
                      <<llamada>>)

\* A dispatch that sends every typed event to the bulk ingestion.
EventoManejadoCualquiera(event_type) == TRUE

\* if event_type == "creacion_masiva_producto": ... else: "Evento no manejado"
EventoManejado(event_type) == event_type = "creacion_masiva_producto"

\* handle_pubsub_push(request). An exception that no except clause of the
\* handler catches leaves it, and the framework answers 500.
handle_pubsub_push(tabla, m, sesion, posts) ==
  IF m.cuerpo = "invalido" THEN Hecho(204, "Envelope invalido", tabla, <<>>)
  ELSE IF m.cuerpo # "objeto"
  THEN Hecho(500, "AttributeError: envelope.get", tabla, <<>>)
  ELSE IF m.message = "falta" THEN Hecho(204, "Envelope sin message", tabla, <<>>)
  ELSE IF m.message # "objeto"
  THEN Hecho(500, "AttributeError: message.get", tabla, <<>>)
  ELSE IF m.data = "falta" THEN Hecho(204, "message.data faltante", tabla, <<>>)
  ELSE IF m.data = "invalida"
  THEN Hecho(204, "Error decodificando data", tabla, <<>>)
  ELSE IF m.data # "objeto"
  THEN Hecho(500, "AttributeError: event.get", tabla, <<>>)
  ELSE IF m.ctx = "texto"
  THEN Hecho(500, "AttributeError: ctx_dict.get", tabla, <<>>)
  ELSE IF m.event = "" THEN Hecho(204, "Evento sin event", tabla, <<>>)
  ELSE IF ~EventoManejado(m.event)
  THEN Hecho(204, "Evento no manejado", tabla, <<>>)
  ELSE IF m.csv_base64 = "falta" \/ m.proveedor_id = "falta"
  THEN Hecho(204, "csv_base64/proveedor_id faltantes", tabla, <<>>)
  ELSE IF m.csv_base64 = "invalido"
  THEN Hecho(204, "csv_base64 invalido", tabla, <<>>)
  ELSE IF m.proveedor_id = "invalido"
  THEN Hecho(204, "proveedor_id invalido", tabla, <<>>)
  ELSE llamar_servicio(tabla, m, sesion, posts)

InitPubsub ==
  /\ inventario = Vacio
  /\ nextId = 1
  /\ reloj = 1
  /\ pend = Vacio
  /\ ult = Ninguna
  /\ pc = [p \in Procs |-> "libre"]
  /\ loc = [p \in Procs |-> Libre]
  /\ hist = <<Vacio>>
  /\ producto \in CatalogosIniciales
  /\ carga = NingunaCarga
  /\ entrega = NingunaEntrega
  /\ entregado = NingunaEntregada
  /\ redis = Vacio
  /\ resp = NingunaRespuesta

\* A message is delivered and the handler answers.
Entregar ==
  /\ entrega = NingunaEntrega
  /\ \E m \in Mensajes, sesion \in SesionResultados :
       \E posts \in [1..Len(m.filas) -> PostResultados] :
         LET h == handle_pubsub_push(producto, m, sesion, posts)
         IN  /\ producto' = h.producto
             /\ entrega' = [mensaje |-> Some(m), sesion |-> sesion,
                            status |-> h.status, traza |-> h.traza,
                            llamadas |-> h.llamadas, antes |-> producto]
  /\ UNCHANGED <<ledgerVars, carga, entregado, cacheVars>>

\* The sender takes the response; the message may be delivered again.
retorno_entrega ==
  /\ entrega # NingunaEntrega
  /\ entregado' = [mensaje |-> entrega.mensaje, despues |-> producto]
  /\ entrega' = NingunaEntrega
  /\ UNCHANGED <<ledgerVars, csvVars, cacheVars>>

NextPubsub == Entregar \/ retorno_entrega

SpecPubsub == InitPubsub /\ [][NextPubsub]_vars

\* ------------------------------------------------- product-detail endpoint
\* producto_detalle of routes/inventario.py: the detail of a product, read
\* through a cache (get_redis) keyed by country and product, filled from
\* svc.producto_detalle on a miss with an expiry of 300 s.

\* X-Country values of the requests.
Paises == {"co", " CO "}

\* What redis.set may do: return, or raise.
SetResultados == {"ok", "falla"}

\* Entries that change the stock the detail reports.
EntradasCache == { <<"L1", "U1", DISPONIBLE>>, <<"L4", "U1", DISPONIBLE>> }

\* country_key = (country or settings.DEFAULT_SCHEMA).strip().lower()
country_key(country) ==
  CASE country = " CO " -> "co"
    [] OTHER -> country

\* The key without the country.
CacheKeySoloProducto(country, producto_id) == <<"", producto_id>>

\* cache_key = f"{country_key}-{producto_id}"
cache_key(country, producto_id) == <<country_key(country), producto_id>>

\* ProductoDetalleOut(**svc.producto_detalle(session, producto_id))
DetalleDe(tabla, producto_id) ==
  [id |-> producto_id,
   stock_total |-> StockTotal(tabla, producto_id),
   lotes |-> LotesConCantidad(tabla, producto_id)]

\* model.model_dump_json()
model_dump_json(model) == <<"json", model>>

\* Bytes that are not the JSON of a ProductoDetalleOut.
Basura == <<"{not-json">>

\* A parser that takes any bytes for a model.
ValidaTodo(cached) == [error |-> "", model |-> cached]

\* ProductoDetalleOut.model_validate_json(cached)
model_validate_json(cached) ==
  IF Len(cached) = 2 /\ cached[1] = "json"
  THEN [error |-> "", model |-> cached[2]]
  ELSE [error |-> "ValidationError", model |-> None]

\* redis.set with its exception let through.
ErrorDeSetPropagado(set) == IF set = "falla" THEN "Falla Redis" ELSE ""

\* try: redis.set(...) / except Exception as e: log.warning(...)
error_de_set(set) == ""

\* The record of a product-detail request.
Respuesta(producto_id, country, cliente, set, status, cuerpo, cached, consultas, escrituras) ==
  [producto_id |-> producto_id, country |-> country, cliente |-> cliente,
   set |-> set, status |-> status, cuerpo |-> cuerpo, cached |-> cached,
   consultas |-> consultas, escrituras |-> escrituras]

\* producto_detalle(producto_id, session, country): cliente says whether
\* get_redis() returned a client, set what redis.set does if it is called.
producto_detalle_http(producto_id, country, cliente, set) ==
  LET clave == cache_key(country, producto_id)
      cached == IF cliente /\ clave \in DOMAIN redis
                THEN Some(redis[clave]) ELSE None
      leido == IF cached # None THEN model_validate_json(cached[1])
               ELSE [error |-> "miss", model |-> None]
      model == DetalleDe(inventario, producto_id)
      escritura == [clave |-> clave, valor |-> model_dump_json(model),
                    ex |-> 300, res |-> set]
  IN  IF leido.error = ""
      THEN /\ resp' = Respuesta(producto_id, country, cliente, set, 200,
                                Some(leido.model), cached, 0, <<>>)
           /\ UNCHANGED redis
      ELSE IF producto_id \notin ProductoIds
      THEN /\ resp' = Respuesta(producto_id, country, cliente, set, 404,
                                None, cached, 1, <<>>)
           /\ UNCHANGED redis
      ELSE IF ~cliente
      THEN /\ resp' = Respuesta(producto_id, country, cliente, set, 200,
                                Some(model), cached, 1, <<>>)
           /\ UNCHANGED redis
      ELSE /\ resp' = Respuesta(producto_id, country, cliente, set,
                                IF error_de_set(set) = "" THEN 200 ELSE 500,
                                IF error_de_set(set) = "" THEN Some(model) ELSE None,
                                cached, 1, <<escritura>>)
           /\ redis' = IF set = "ok"
                       THEN [k \in DOMAIN redis \cup {clave} |->
                               IF k = clave THEN escritura.valor ELSE redis[k]]
                       ELSE redis

DetalleHttp ==
  /\ ult = Ninguna
  /\ resp = NingunaRespuesta
  /\ \E p \in ProductosConsulta, country \in Paises, cliente \in BOOLEAN,
        set \in SetResultados :
       producto_detalle_http(p, country, cliente, set)
  /\ UNCHANGED <<ledgerVars, csvVars, pushVars>>

\* The client takes the response; the next request may start.
retorno_detalle ==
  /\ resp # NingunaRespuesta
  /\ resp' = NingunaRespuesta
  /\ UNCHANGED <<ledgerVars, csvVars, pushVars, redis>>

\* Stock endpoints that drop the product's cached details.
cache_invalidado(cache, producto_id) ==
  [k \in { x \in DOMAIN cache : x[2] # producto_id } |-> cache[k]]

\* entrada and salida_fefo call the service and return: neither calls
\* get_redis(), so the cache after the request is the cache before it.
cache_tras_movimiento(cache, producto_id) == cache

\* A stock entry between two requests.
EntradaCache ==
  /\ ult = Ninguna
  /\ resp = NingunaRespuesta
  /\ \E e \in EntradasCache :
       /\ recibir_entrada(e[1], e[2], 1, e[3])
       /\ redis' = cache_tras_movimiento(redis, Lote[e[1]].producto_id)
  /\ UNCHANGED <<concVars, csvVars, pushVars, resp>>

\* A FEFO depletion of one unit between two requests.
SalidaCache ==
  /\ ult = Ninguna
  /\ resp = NingunaRespuesta
  /\ \E p \in ProductoIds :
       /\ salida_por_fefo(p, 1, None)
       /\ redis' = cache_tras_movimiento(redis, p)
  /\ UNCHANGED <<concVars, csvVars, pushVars, resp>>

\* The value stored under a key is damaged: it no longer parses.
corromper ==
  /\ resp = NingunaRespuesta
  /\ \E k \in DOMAIN redis :
       /\ redis[k] # Basura
       /\ redis' = [redis EXCEPT ![k] = Basura]
  /\ UNCHANGED <<ledgerVars, csvVars, pushVars, resp>>

\* A key reaches its expiry (ex=300) and is dropped.
expirar ==
  /\ resp = NingunaRespuesta
  /\ \E k \in DOMAIN redis :
       redis' = [x \in DOMAIN redis \ {k} |-> redis[x]]
  /\ UNCHANGED <<ledgerVars, csvVars, pushVars, resp>>

NextCache ==
  \/ DetalleHttp \/ retorno_detalle \/ EntradaCache \/ SalidaCache \/ retorno
  \/ corromper \/ expirar

SpecCache == Init /\ [][NextCache]_vars

\* --------------------------------------------------------- stock ledger claims
\* Total cantidad of the DISPONIBLE rows of the product (at the location, when
\* a filter is given) in a table.
Disponible(tabla, producto_id, ubicacion_id) ==
  SumaSobre([id \in DOMAIN tabla |-> tabla[id].cantidad],
            Seleccion(tabla, producto_id, ubicacion_id))

\* Total cantidad held in a table for a (lote, ubicacion, estado) triple.
TotalTriple(tabla, lote_id, ubicacion_id, estado) ==
  SumaSobre([id \in DOMAIN tabla |-> tabla[id].cantidad],
            BuscarInventario(tabla, lote_id, ubicacion_id, estado))

FefoHecha == ult.op = "fefo" /\ ult.cantidad > 0
FefoOk == FefoHecha /\ ult.res = "ok"
FefoInsuficiente == FefoHecha /\ ult.res = "Stock insuficiente total"
EntradaOk == ult.op = "entrada" /\ ult.res = "ok"
SeleccionAntes == Seleccion(ult.antes, ult.producto_id, ult.filtro)

C2_SumaConsumida ==
  FefoOk =>
    /\ SumaTomas(ult.consumos) = ult.cantidad
    /\ Disponible(ult.antes, ult.producto_id, None)
         - Disponible(inventario, ult.producto_id, None) = ult.cantidad

\* C3: a successful FEFO depletion consumes in the query's order (ascending
\* vencimiento, no vencimiento last); every selected row sorting before a
\* consumed row was itself consumed in full; only the last consumed row may
\* keep a positive cantidad.
C3_OrdenFefo ==
  FefoOk =>
    LET cs == ult.consumos IN
    /\ \A i, j \in DOMAIN cs :
         i < j => ~OrdenaAntes(ult.antes[cs[j][1]], ult.antes[cs[i][1]])
    /\ \A j \in DOMAIN cs : \A r \in SeleccionAntes :
         OrdenaAntes(ult.antes[r], ult.antes[cs[j][1]])
           => \E i \in DOMAIN cs : cs[i] = <<r, ult.antes[r].cantidad>>
    /\ \A i \in DOMAIN cs :
         i < Len(cs) => cs[i][1] \notin DOMAIN inventario

\* C4: every row of the inventario table has cantidad > 0.
C4_CantidadPositiva ==
  \A id \in DOMAIN inventario : inventario[id].cantidad > 0

\* C5: the inventario table never holds two rows with the same
\* (lote_id, ubicacion_id, estado).
C5_UnaFilaPorTriple ==
  \A a, b \in DOMAIN inventario :
    ( /\ inventario[a].lote_id = inventario[b].lote_id
      /\ inventario[a].ubicacion_id = inventario[b].ubicacion_id
      /\ inventario[a].estado = inventario[b].estado ) => a = b

\* An entry found the row of its triple and merged into it.
C5_Witness ==
  /\ EntradaOk
  /\ ult.devuelto.id \in DOMAIN ult.antes
  /\ Cardinality(DOMAIN inventario) = Cardinality(DOMAIN ult.antes)

\* C6: after a valid entry the total held for its (lote, ubicacion, estado)
\* is the total before the call plus the requested cantidad, and the
\* returned row carries that total.
C6_EntradaSuma ==
  EntradaOk =>
    /\ TotalTriple(inventario, ult.lote_id, ult.ubicacion_id, ult.estado)
         = TotalTriple(ult.antes, ult.lote_id, ult.ubicacion_id, ult.estado)
           + ult.cantidad
    /\ ult.devuelto.cantidad
         = TotalTriple(ult.antes, ult.lote_id, ult.ubicacion_id, ult.estado)
           + ult.cantidad

C11_CantidadNoPositiva ==
  [][ ( /\ ult.op = "ninguna"
        /\ ult'.op \in {"entrada", "fefo"}
        /\ ult'.cantidad <= 0 )
      => ( /\ ult'.res = "Cantidad debe ser positiva"
           /\ UNCHANGED <<inventario, nextId, reloj, pend>> ) ]_vars

\* A depletion with a negative cantidad was refused on a table that has rows;
\* so was an entry with cantidad 0 for a lot that does not exist.
C11_Witness ==
  /\ inventario # Vacio
  /\ \/ ult.op = "fefo" /\ ult.cantidad < 0
     \/ ult.op = "entrada" /\ ult.cantidad = 0 /\ ult.lote_id \notin LoteIds
  /\ ult.res = "Cantidad debe ser positiva"

\* C12: a stock entry with cantidad > 0 for a lot or a location that does not
\* exist ends with the not-found message and leaves the inventario table as it
\* was.
C12_EntradaNoEncontrado ==
  ( /\ ult.op = "entrada"
    /\ ult.cantidad > 0
    /\ (ult.lote_id \notin LoteIds \/ ult.ubicacion_id \notin UbicacionIds) )
  => /\ ult.res = IF ult.lote_id \notin LoteIds THEN "Lote no existe"
                                                 ELSE "Ubicacion no existe"
     /\ inventario = ult.antes

\* An entry for an existing lot at a location that does not exist was refused
\* on a table that has rows.
C12_Witness ==
  /\ ult.op = "entrada"
  /\ ult.cantidad > 0
  /\ ult.lote_id \in LoteIds
  /\ ult.ubicacion_id \notin UbicacionIds
  /\ ult.res = "Ubicacion no existe"
  /\ inventario # Vacio

\* Sum, over the lots of the product and the locations, of what a table holds
\* for (lot, location, estado).
SumaPorLotes(tabla, producto_id, estados) ==
  LET S == { t \in LoteIds \X UbicacionIds \X estados :
               Lote[t[1]].producto_id = producto_id }
  IN  SumaSobre([t \in S |-> TotalTriple(tabla, t[1], t[2], t[3])], S)

\* C13: the stock query returns the sum of the cantidad of the DISPONIBLE rows
\* of the product's lots (0 when there are none); a stock entry in estado
\* BLOQUEADO, VENCIDO or DANIADO, and an entry or a depletion for another
\* product, leave the product's stock as it was before the call.
C13_StockPorProducto ==
  /\ ult.op = "stock" =>
       ult.total = IF ult.producto_id \in ProductoIds
                   THEN SumaPorLotes(inventario, ult.producto_id, {DISPONIBLE})
                   ELSE 0
  /\ \A p \in ProductoIds :
       ( \/ /\ ult.op = "entrada"
             /\ ult.lote_id \in LoteIds
             /\ (ult.estado # DISPONIBLE \/ Lote[ult.lote_id].producto_id # p)
          \/ /\ ult.op = "fefo"
             /\ ult.producto_id # p )
       => stock_por_producto(inventario, p) = stock_por_producto(ult.antes, p)

\* C14: producto_detalle of a product of the catalog returns as stock_total the
\* sum of the cantidad of all its rows, whatever their estado; the per-lot
\* subtotals returned, one for every lot of the product (0 for a lot without
\* rows), add up to stock_total; for a product that is not in the catalog the
\* call fails with "Producto no encontrado".
C14_ProductoDetalle ==
  ult.op = "detalle" =>
    IF ult.producto_id \notin ProductoIds
    THEN ult.res = "Producto no encontrado"
    ELSE /\ ult.res = "ok"
         /\ ult.total = SumaPorLotes(inventario, ult.producto_id,
                                     InventarioEstadoEnum)
         /\ ult.total = SumaSobre([i \in DOMAIN ult.lotes |->
                                     ult.lotes[i].cantidad_total],
                                  DOMAIN ult.lotes)
         /\ { ult.lotes[i].id : i \in DOMAIN ult.lotes }
              = { l \in LoteIds : Lote[l].producto_id = ult.producto_id }
         /\ \A i \in DOMAIN ult.lotes :
              ult.lotes[i].cantidad_total
                = SumaPorLotes(inventario, ult.producto_id, InventarioEstadoEnum)
                  - SumaSobre([j \in DOMAIN ult.lotes |->
                                 ult.lotes[j].cantidad_total],
                              DOMAIN ult.lotes \ {i})

\* The detail of a product that holds a DISPONIBLE row and a row in another
\* estado was returned, with a lot at subtotal 0 in it.
C14_Witness ==
  /\ ult.op = "detalle"
  /\ ult.res = "ok"
  /\ ult.total >= 2
  /\ stock_por_producto(inventario, ult.producto_id) > 0
  /\ stock_por_producto(inventario, ult.producto_id) < ult.total
  /\ \E i \in DOMAIN ult.lotes : ult.lotes[i].cantidad_total = 0

\* Sum of cantidad over the rows of the product's lots at a location, in
\* whatever estado.
SumaEnUbicacion(tabla, producto_id, ubicacion_id) ==
  SumaSobre([id \in DOMAIN tabla |-> tabla[id].cantidad],
            { id \in DOMAIN tabla :
                /\ tabla[id].lote_id \in LoteIds
                /\ Lote[tabla[id].lote_id].producto_id = producto_id
                /\ tabla[id].ubicacion_id = ubicacion_id })

CargaHecha == carga.entrada # "ninguna" /\ carga.res = "ok"

\* The data row of a line of the batch's log.
FilaDe(n) == carga.filas[n.linea - 1]

\* The row's catalog fields convert and are not blank.
FilaValida(row) ==
  /\ to_float(row.temp_min).error = ""
  /\ to_bool(row.controlado).error = ""
  /\ Strip(row.sku) # "" /\ Strip(row.nombre) # "" /\ Strip(row.categoria) # ""

\* The row has a blank sku, nombre or categoria once trimmed.
FilaEnBlanco(row) ==
  Strip(row.sku) = "" \/ Strip(row.nombre) = "" \/ Strip(row.categoria) = ""

\* The batch reported an error for the line.
ConError(linea) == \E e \in DOMAIN carga.errores : carga.errores[e].linea = linea

\* The sku of line n was in the producto table when the row was processed:
\* from before the batch or from an earlier row of the batch.
YaExistia(n) ==
  \/ n.sku \in DOMAIN carga.antes
  \/ \E m \in DOMAIN carga.bitacora :
       /\ carga.bitacora[m].linea < n.linea
       /\ carga.bitacora[m].sku = n.sku
       /\ carga.bitacora[m].upsert = "creado"

\* C15: a valid feed row whose sku already belongs to a Product is counted as
\* inserted, has no error entry, and resolves to the Product that was there,
\* through the upload endpoint and through procesar_csv_productos alike
\* (rows whose supplier association failed are left aside here).
C15_UpsertIdempotente ==
  CargaHecha =>
    \A i \in DOMAIN carga.bitacora :
      LET n == carga.bitacora[i] IN
      (FilaValida(FilaDe(n)) /\ YaExistia(n) /\ n.asoc \in {"enviada", "no"})
        => /\ ~ConError(n.linea)
           /\ n.upsert = "existente"
           /\ n.sku \in DOMAIN producto
           /\ producto[n.sku].id = n.id

\* C16: a batch that passed the header check reports total = number of data
\* rows = insertados + len(errores); every row is counted once, as inserted
\* or as one error entry.
C16_TotalInsertadosErrores ==
  CargaHecha =>
    /\ carga.total = Len(carga.filas)
    /\ carga.total = carga.insertados + Len(carga.errores)
    /\ \A e \in DOMAIN carga.errores :
         carga.errores[e].linea \in 2..(Len(carga.filas) + 1)
    /\ \A e, f \in DOMAIN carga.errores :
         carga.errores[e].linea = carga.errores[f].linea => e = f

\* A batch with one row inserted and one row in error.
C16_Witness ==
  /\ CargaHecha
  /\ carga.insertados >= 1
  /\ Len(carga.errores) >= 1

\* C17: in procesar_csv_productos a row whose Product upsert succeeded is
\* counted as inserted and has no error entry, also when its supplier
\* association could not be built or sent.
C17_AsociacionNoEsError ==
  (CargaHecha /\ carga.entrada = "servicio") =>
    /\ \A i \in DOMAIN carga.bitacora :
         carga.bitacora[i].upsert \in {"creado", "existente"}
           => ~ConError(carga.bitacora[i].linea)
    /\ carga.insertados
         = Cardinality({ i \in DOMAIN carga.bitacora :
                           carga.bitacora[i].upsert \in {"creado", "existente"} })

\* C18: in procesar_csv_productos, a Product created by a row whose supplier
\* association then failed is in the producto table after the batch, and so
\* is every Product that was there before the batch or was created by
\* another row.
C18_AsociacionNoDeshace ==
  (CargaHecha /\ carga.entrada = "servicio") =>
    /\ \A i \in DOMAIN carga.bitacora :
         LET n == carga.bitacora[i] IN
         n.upsert = "creado"
           => n.sku \in DOMAIN producto /\ producto[n.sku].id = n.id
    /\ \A sku \in DOMAIN carga.antes :
         sku \in DOMAIN producto /\ producto[sku] = carga.antes[sku]

\* A row created its Product, the association call timed out, and a later
\* row of the batch failed as well.
C18_Witness ==
  /\ CargaHecha
  /\ carga.entrada = "servicio"
  /\ \E i, j \in DOMAIN carga.bitacora :
       /\ i < j
       /\ carga.bitacora[i].upsert = "creado"
       /\ carga.bitacora[i].asoc = "timeout"
       /\ carga.bitacora[j].asoc \in {"campo_vacio", "error_http"}

\* C19: a row whose sku, nombre or categoria is blank once trimmed has an
\* error entry of its own and creates no Product; the rows around it are
\* processed all the same.
C19_CamposEnBlanco ==
  CargaHecha =>
    /\ Len(carga.bitacora) = Len(carga.filas)
    /\ \A i \in DOMAIN carga.bitacora :
         LET n == carga.bitacora[i] IN
         FilaEnBlanco(FilaDe(n))
           => /\ ConError(n.linea)
              /\ n.upsert = "no"
              /\ \A sku \in DOMAIN producto \ DOMAIN carga.antes :
                   \E m \in DOMAIN carga.bitacora :
                     /\ carga.bitacora[m].linea # n.linea
                     /\ carga.bitacora[m].upsert = "creado"
                     /\ carga.bitacora[m].sku = sku

\* The columns an entry point requires.
Requeridas(entrada) ==
  IF entrada = "servicio" THEN REQUIRED_HEADERS_SERVICIO ELSE REQUIRED_HEADERS

\* C20: a feed whose header row lacks a column its entry point requires fails
\* with "Faltan columnas en el CSV"; no row was processed, the producto table
\* is as before and no association was sent.
C20_CabeceraIncompleta ==
  ( /\ carga.entrada # "ninguna"
    /\ Requeridas(carga.entrada) \ carga.cabecera # {} )
  => /\ carga.res = "Faltan columnas en el CSV"
     /\ producto = carga.antes
     /\ carga.bitacora = <<>>
     /\ carga.enviados = <<>>
     /\ carga.total = 0 /\ carga.insertados = 0 /\ carga.errores = <<>>

\* A feed with valid rows and a header row without "categoria" was refused
\* by a catalog that already held Products.
C20_Witness ==
  /\ carga.entrada # "ninguna"
  /\ "categoria" \notin carga.cabecera
  /\ carga.res = "Faltan columnas en el CSV"
  /\ \E i \in DOMAIN carga.filas : FilaValida(carga.filas[i])
  /\ producto # Vacio

\* The row's fields for the catalog and for the supplier association all
\* convert and none that is required is blank.
FilaCompleta(row) ==
  /\ FilaValida(row)
  /\ to_float(row.precio).error = ""
  /\ to_float(row.precio).valor # None

\* The row of line n of the log failed: nothing was upserted, or the
\* association was not built or not sent.
FilaFallo(n) ==
  \/ n.upsert \in {"no", "falla"}
  \/ n.asoc \in {"campo_vacio", "error_http", "timeout"}

\* C21: a batch that passed the header check returns a result; every row of
\* the feed was processed, every row that failed has an error entry of its
\* own line, and a row with valid fields that follows a failing row is counted
\* as inserted, without an error entry, with its Product in the producto table
\* (rows whose association call itself failed are left aside here).
C21_FallaAislada ==
  CargaHecha =>
    /\ Len(carga.bitacora) = Len(carga.filas)
    /\ \A i \in DOMAIN carga.bitacora :
         FilaFallo(carga.bitacora[i]) => ConError(carga.bitacora[i].linea)
    /\ \A i, j \in DOMAIN carga.bitacora :
         LET n == carga.bitacora[j] IN
         ( /\ i < j
           /\ ConError(carga.bitacora[i].linea)
           /\ FilaCompleta(FilaDe(n))
           /\ n.asoc \notin {"error_http", "timeout"} )
         => /\ ~ConError(n.linea)
            /\ n.sku \in DOMAIN producto

\* The lines of the batch's log that were counted as inserted, up to line i.
InsertadasHasta(i) ==
  { j \in 1..i : ~ConError(carga.bitacora[j].linea) }

\* C29: in a batch that passed the header check, through either entry point,
\* as many association payloads were sent as rows were counted as inserted,
\* one for each such row in the order of the rows, carrying the identifier of
\* the Product the producto table holds for the row's sku.
C29_UnaAsociacionPorFila ==
  CargaHecha =>
    /\ Len(carga.enviados) = carga.insertados
    /\ \A i \in DOMAIN carga.bitacora :
         LET n == carga.bitacora[i]
             k == Cardinality(InsertadasHasta(i))
         IN  ~ConError(n.linea)
               => /\ k \in DOMAIN carga.enviados
                  /\ n.sku \in DOMAIN producto
                  /\ carga.enviados[k].producto_id = producto[n.sku].id
                  /\ carga.enviados[k].sku_proveedor = n.sku

\* C31: every error entry of a batch that passed the header check carries the
\* number of its row (row k of the data has number k + 1), the row's sku and
\* a message; the entries are in ascending row order, and a row has an entry
\* exactly when it failed.
C31_ErrorIdentificaFila ==
  CargaHecha =>
    /\ \A e \in DOMAIN carga.errores :
         LET x == carga.errores[e] IN
         /\ x.linea \in 2..(Len(carga.filas) + 1)
         /\ "sku" \in DOMAIN x
         /\ x.sku = Strip(carga.filas[x.linea - 1].sku)
         /\ x.error # ""
    /\ \A e, f \in DOMAIN carga.errores :
         e < f => carga.errores[e].linea < carga.errores[f].linea
    /\ \A i \in DOMAIN carga.bitacora :
         /\ carga.bitacora[i].linea = i + 1
         /\ FilaFallo(carga.bitacora[i]) <=> ConError(i + 1)

\* ------------------------------------------------------- concurrency claims
Terminaron == \A p \in Procs : pc[p] = "fin"

\* What caller p reports having consumed from row id.
RECURSIVE TomadoDe(_, _)
TomadoDe(cs, id) ==
  IF cs = <<>> THEN 0
  ELSE (IF Head(cs)[1] = id THEN Head(cs)[2] ELSE 0) + TomadoDe(Tail(cs), id)

\* cantidad of row id in a table, 0 when the row is not there.
CantidadEn(tabla, id) == IF id \in DOMAIN tabla THEN tabla[id].cantidad ELSE 0

\* C7: when two FEFO depletions of one product have run concurrently, every
\* row ends at its initial cantidad minus what the two calls report having
\* consumed from it, and together they consumed no more than was DISPONIBLE.
C7_SinActualizacionPerdida ==
  ( /\ Terminaron
    /\ \A p \in Procs : loc[p].op = "fefo"
    /\ \A p, q \in Procs : loc[p].producto_id = loc[q].producto_id )
  => /\ \A id \in DOMAIN hist[1] :
          CantidadEn(inventario, id)
            = hist[1][id].cantidad
              - SumaSobre([p \in Procs |-> TomadoDe(loc[p].consumos, id)], Procs)
     /\ SumaSobre([p \in Procs |-> SumaTomas(loc[p].consumos)], Procs)
          <= Disponible(hist[1], loc[CHOOSE p \in Procs : TRUE].producto_id, None)

\* C8: when two entries for one (lote, ubicacion, estado) have run
\* concurrently and both succeeded, the table holds exactly one row for the
\* triple, with the prior total plus both requested quantities.
C8_EntradasConcurrentes ==
  ( /\ Terminaron
    /\ \A p \in Procs : loc[p].op = "entrada" /\ loc[p].res = "ok"
    /\ \A p, q \in Procs : /\ loc[p].lote_id = loc[q].lote_id
                           /\ loc[p].ubicacion_id = loc[q].ubicacion_id
                           /\ loc[p].estado = loc[q].estado )
  => LET l == loc[CHOOSE p \in Procs : TRUE]
         filas == BuscarInventario(inventario, l.lote_id, l.ubicacion_id, l.estado)
     IN  /\ Cardinality(filas) = 1
         /\ TotalTriple(inventario, l.lote_id, l.ubicacion_id, l.estado)
              = TotalTriple(hist[1], l.lote_id, l.ubicacion_id, l.estado)
                + SumaSobre([p \in Procs |-> loc[p].cantidad], Procs)

\* C9: the table a depletion, an entry or a stock query reads is always the
\* table as it was at the start or right after a whole call's commit: never a
\* table holding only part of another depletion's decrements and deletions.
C9_SinEstadoParcial ==
  \A p \in Procs :
    loc[p].leyo => \E k \in DOMAIN hist : loc[p].visto = hist[k]

\* A depletion that consumed from two rows committed while the other caller,
\* who read before that commit, is still between its read and its write.
C9_Witness ==
  \E p, q \in Procs :
    /\ p # q
    /\ pc[q] = "fin" /\ loc[q].op = "fefo" /\ loc[q].res = "ok"
    /\ Len(loc[q].consumos) = 2
    /\ pc[p] = "leido" /\ loc[p].op = "fefo"
    /\ loc[p].visto = hist[1]
    /\ inventario = hist[2]
    /\ inventario # hist[1]

\* C22: when two callers have upserted the same sku and both found nothing at
\* their first lookup and tried to create it, both calls returned a Product,
\* the same one, and it is the Product the producto table holds for the sku:
\* the caller refused by the unique index got it from its second lookup.
C22_UpsertConcurrente ==
  \A p, q \in Procs :
    ( /\ p # q
      /\ pc[p] = "fin" /\ pc[q] = "fin"
      /\ loc[p].sku = loc[q].sku
      /\ loc[p].intento /\ loc[q].intento )
    => /\ loc[p].res = "ok" /\ loc[q].res = "ok"
       /\ loc[p].id = loc[q].id
       /\ loc[p].sku \in DOMAIN producto
       /\ producto[loc[p].sku].id = loc[p].id

\* Both callers tried to create the same sku; one was refused by the unique
\* index and has returned.
C22_Witness ==
  \E p, q \in Procs :
    /\ p # q
    /\ pc[p] = "fin" /\ pc[q] = "fin"
    /\ loc[p].sku = loc[q].sku
    /\ loc[p].intento /\ loc[q].intento
    /\ loc[q].conflicto
    /\ ~loc[p].conflicto

\* --------------------------------------------------------- push handler claims
\* C23: every delivery is answered with status 204, whatever the message
\* holds and however the ingestion ended.
C23_SiempreAcusa ==
  entrega # NingunaEntrega => entrega.status = 204

\* The message is a creacion_masiva_producto event with a decodable feed and
\* a valid supplier id.
EventoDeCarga(m) ==
  /\ m.cuerpo = "objeto" /\ m.message = "objeto" /\ m.data = "objeto"
  /\ m.ctx # "texto"
  /\ m.event = "creacion_masiva_producto"
  /\ m.csv_base64 = "valido" /\ m.proveedor_id = "valido"

\* C24: for a delivered creacion_masiva_producto event with a decodable feed
\* and a valid supplier id (and a session at hand), the bulk ingestion ran
\* once, on the message's feed with its supplier, country and trace id, and
\* when the header row is complete every valid row's sku has a Product.
C24_EntregaIngesta ==
  ( /\ entrega # NingunaEntrega
    /\ EventoDeCarga(entrega.mensaje[1])
    /\ entrega.sesion = "ok" )
  => LET m == entrega.mensaje[1] IN
     /\ Len(entrega.llamadas) = 1
     /\ entrega.llamadas[1].filas = m.filas
     /\ entrega.llamadas[1].cabecera = m.cabecera
     /\ entrega.llamadas[1].proveedor_id = m.proveedor_id
     /\ entrega.llamadas[1].country = country_de(m)
     /\ entrega.llamadas[1].trace_id = trace_id_de(m)
     /\ FaltanColumnas(REQUIRED_HEADERS_SERVICIO, m.cabecera) = {}
          => \A i \in DOMAIN m.filas :
               FilaValida(m.filas[i]) => Strip(m.filas[i].sku) \in DOMAIN producto

\* The delivery being answered repeats the message of the delivery before it.
Reentrega ==
  /\ entrega # NingunaEntrega
  /\ entregado # NingunaEntregada
  /\ entrega.mensaje = entregado.mensaje
  /\ EventoDeCarga(entrega.mensaje[1])

AlcanzoServicio ==
  entrega.traza \in { "Error procesando: sesion", "Error procesando: TypeError",
                      "Error procesando: Faltan columnas en el CSV",
                      "Procesamiento CSV finalizado" }

\* The message's data does not decode, or its event has no type, or a type
\* other than creacion_masiva_producto.
SinEventoDeCarga(m) ==
  /\ m.cuerpo = "objeto" /\ m.message = "objeto"
  /\ \/ m.data = "invalida"
     \/ m.data = "objeto" /\ m.ctx # "texto"
                          /\ m.event # "creacion_masiva_producto"

\* C32: a delivery whose data cannot be decoded, or whose event has no type
\* or a type other than creacion_masiva_producto, is answered without
\* reaching the call of procesar_csv_productos and leaves the producto table
\* as it was.
C32_NoIngesta ==
  (entrega # NingunaEntrega /\ SinEventoDeCarga(entrega.mensaje[1]))
    => /\ ~AlcanzoServicio
       /\ entrega.llamadas = <<>>
       /\ producto = entrega.antes

\* An event of another type that carries a decodable feed with a valid row
\* whose sku has no Product was delivered, with a session at hand.
C32_Witness ==
  /\ entrega # NingunaEntrega
  /\ entrega.mensaje[1].event = "otro"
  /\ entrega.mensaje[1].csv_base64 = "valido"
  /\ entrega.sesion = "ok"
  /\ entrega.traza = "Evento no manejado"
  /\ \E i \in DOMAIN entrega.mensaje[1].filas :
       /\ FilaValida(entrega.mensaje[1].filas[i])
       /\ Strip(entrega.mensaje[1].filas[i].sku) \notin DOMAIN entrega.antes

\* ------------------------------------------------ product-detail endpoint claims
\* A request is answered and get_redis() had returned a client.
ConCache == resp # NingunaRespuesta /\ resp.cliente

\* The request found a value under its key that does not parse.
EntradaIlegible ==
  /\ ConCache
  /\ resp.cached = Some(Basura)

\* The request found a value under its key that parses.
Acierto ==
  /\ ConCache
  /\ resp.cached # None
  /\ resp.cached # Some(Basura)

\* The key of the request, as the endpoint's contract names it.
ClavePedida == <<country_key(resp.country), resp.producto_id>>

\* The request wrote once, under its key, the detail the store holds.
UnaEscritura ==
  /\ Len(resp.escrituras) = 1
  /\ resp.escrituras[1].clave = ClavePedida
  /\ resp.escrituras[1].valor
       = model_dump_json(DetalleDe(inventario, resp.producto_id))

\* C26: a request that finds an unparseable value under its key succeeds with
\* the detail read from the store, after one query of the store, and attempts
\* one write of that detail under the same key.
C26_CacheIlegible ==
  EntradaIlegible =>
    /\ resp.status = 200
    /\ resp.cuerpo = Some(DetalleDe(inventario, resp.producto_id))
    /\ resp.consultas = 1
    /\ UnaEscritura

\* A request found a damaged value under its key while the store held stock
\* of the product.
C26_Witness ==
  /\ EntradaIlegible
  /\ StockTotal(inventario, resp.producto_id) > 0

\* C27: a request whose cache write failed after a miss still succeeds with
\* the detail read from the store; the cache is left as it was.
C27_FallaDeEscritura ==
  ( /\ ConCache
    /\ ~Acierto
    /\ Len(resp.escrituras) = 1
    /\ resp.escrituras[1].res = "falla" )
  => /\ resp.status = 200
     /\ resp.cuerpo = Some(DetalleDe(inventario, resp.producto_id))
     /\ resp.escrituras[1].clave \in DOMAIN redis
          => redis[resp.escrituras[1].clave] = resp.cached[1]

\* The write failed for a request that found nothing under its key.
C27_Witness ==
  /\ ConCache
  /\ resp.cached = None
  /\ Len(resp.escrituras) = 1
  /\ resp.escrituras[1].res = "falla"
  /\ StockTotal(inventario, resp.producto_id) > 0

\* C28 as stated: on a hit the response is the cached entry, the store is not
\* queried and the cache not written; on every miss the store is queried
\* once and the cache written once under the request's key.
C28_CacheOriginal ==
  /\ Acierto =>
       /\ resp.status = 200
       /\ resp.cuerpo = Some(resp.cached[1][2])
       /\ resp.consultas = 0
       /\ resp.escrituras = <<>>
  /\ (ConCache /\ resp.cached = None) =>
       /\ resp.consultas = 1
       /\ UnaEscritura

\* C28: on a hit the response is the cached entry, the store is not queried
\* and the cache not written; on a miss the store is queried once and, when
\* the product exists, the cache is written once under the request's key;
\* when it does not, the answer is 404 and nothing is written.
C28_Cache ==
  /\ Acierto =>
       /\ resp.status = 200
       /\ resp.cuerpo = Some(resp.cached[1][2])
       /\ resp.consultas = 0
       /\ resp.escrituras = <<>>
  /\ (ConCache /\ resp.cached = None) =>
       /\ resp.consultas = 1
       /\ resp.producto_id \in ProductoIds => UnaEscritura
       /\ resp.producto_id \notin ProductoIds
            => resp.status = 404 /\ resp.escrituras = <<>>

\* A hit on an entry that no longer matches the store, answered for a request
\* whose country needed trimming and lowering.
C28_Witness ==
  /\ Acierto
  /\ resp.country = " CO "
  /\ resp.cuerpo # Some(DetalleDe(inventario, resp.producto_id))


\* ------------------------------------------- stock ledger claims: session and order
\* What the call recorded in u changed in row id by its own account: the
\* cantidad of a successful entry into the row, minus what a successful
\* depletion reports having consumed from it.
CambioPropio(u, id) ==
  IF u.res # "ok" THEN 0
  ELSE IF u.op = "entrada" THEN (IF u.devuelto.id = id THEN u.cantidad ELSE 0)
  ELSE IF u.op = "fefo" THEN 0 - TomadoDe(u.consumos, id)
  ELSE 0

\* C33: when the session holds the decrements of a depletion that failed with
\* "Stock insuficiente total", the next call that commits writes to every row
\* only what the call itself did: none of the failed call's decrements
\* reaches the inventario table.
C33_FalloDescartado ==
  [][ ( /\ pend # Vacio
        /\ ult'.op \in {"entrada", "fefo"}
        /\ ult'.res = "ok" )
      => \A id \in DOMAIN inventario :
           CantidadEn(inventario', id)
             = inventario[id].cantidad + CambioPropio(ult', id) ]_vars

\* Position of row id in the list of consumptions, 0 when it is not listed.
PosicionEn(cs, id) ==
  IF \E i \in DOMAIN cs : cs[i][1] = id
  THEN CHOOSE i \in DOMAIN cs : cs[i][1] = id
  ELSE 0

\* C34: in a successful FEFO depletion, of two selected rows whose lots have
\* the same vencimiento (the same lot at two locations included) the one
\* with the later fecha_ingreso is consumed only when the one with the
\* earlier fecha_ingreso was consumed in full, and is listed after it.
C34_DesempateIngreso ==
  FefoOk =>
    \A a, b \in SeleccionAntes :
      ( /\ Lote[ult.antes[a].lote_id].vencimiento
             = Lote[ult.antes[b].lote_id].vencimiento
        /\ ult.antes[a].fecha_ingreso < ult.antes[b].fecha_ingreso
        /\ TomadoDe(ult.consumos, b) > 0 )
      => /\ TomadoDe(ult.consumos, a) = ult.antes[a].cantidad
         /\ PosicionEn(ult.consumos, a) > 0
         /\ PosicionEn(ult.consumos, a) < PosicionEn(ult.consumos, b)

\* C35: the list a successful FEFO depletion returns names rows of the table
\* before the call, each at most once, each with a consumed quantity above 0
\* and not above the row's cantidad before the call, in the query's order;
\* every row's cantidad went down by what the list says of it (a row not in
\* the list is in the table as it was).
C35_ListaDeConsumos ==
  FefoOk =>
    LET cs == ult.consumos IN
    /\ \A i, j \in DOMAIN cs : cs[i][1] = cs[j][1] => i = j
    /\ \A i \in DOMAIN cs :
         /\ cs[i][1] \in DOMAIN ult.antes
         /\ cs[i][2] > 0
         /\ cs[i][2] <= ult.antes[cs[i][1]].cantidad
    /\ \A i, j \in DOMAIN cs :
         i < j => ~OrdenaAntes(ult.antes[cs[j][1]], ult.antes[cs[i][1]])
    /\ DOMAIN inventario \subseteq DOMAIN ult.antes
    /\ \A id \in DOMAIN ult.antes :
         /\ CantidadEn(inventario, id)
              = ult.antes[id].cantidad - TomadoDe(cs, id)
         /\ PosicionEn(cs, id) = 0
              => (id \in DOMAIN inventario /\ inventario[id] = ult.antes[id])

\* C36: a successful entry creates or changes one row, the row of its
\* (lote, ubicacion, estado), which it returns; every other row of the table,
\* the DISPONIBLE row of the same lote and ubicacion of an entry in another
\* estado included, is in the table as it was before the call.
C36_MarcoEntrada ==
  EntradaOk =>
    LET id == ult.devuelto.id IN
    /\ id \in DOMAIN inventario
    /\ inventario[id].lote_id = ult.lote_id
    /\ inventario[id].ubicacion_id = ult.ubicacion_id
    /\ inventario[id].estado = ult.estado
    /\ id \in DOMAIN ult.antes
         => inventario[id].cantidad # ult.antes[id].cantidad
    /\ DOMAIN inventario = DOMAIN ult.antes \cup {id}
    /\ \A x \in DOMAIN ult.antes \ {id} : inventario[x] = ult.antes[x]

\* C37: an entry that merges into a row leaves the row's fecha_ingreso as it
\* was; an entry that creates its row gives it the time of the call, later
\* than the fecha_ingreso of every row the table held.
C37_FechaIngreso ==
  [][ ( /\ ult.op = "ninguna"
        /\ ult'.op = "entrada"
        /\ ult'.res = "ok" )
      => LET id == ult'.devuelto.id IN
         IF id \in DOMAIN inventario
         THEN inventario'[id].fecha_ingreso = inventario[id].fecha_ingreso
         ELSE /\ inventario'[id].fecha_ingreso = reloj
              /\ \A x \in DOMAIN inventario :
                   inventario[x].fecha_ingreso < reloj ]_vars

\* An entry merged into a row that was ingested before another row of the
\* table: the merged row still carries the earlier fecha_ingreso.
C37_Witness ==
  /\ EntradaOk
  /\ ult.devuelto.id \in DOMAIN ult.antes
  /\ \E x \in DOMAIN inventario :
       inventario[x].fecha_ingreso > inventario[ult.devuelto.id].fecha_ingreso

\* Total cantidad, before the call, of the product's DISPONIBLE rows at the
\* location the depletion was filtered to.
SumaEnFiltro ==
  SumaSobre([id \in DOMAIN ult.antes |-> ult.antes[id].cantidad],
            { id \in DOMAIN ult.antes :
                /\ Lote[ult.antes[id].lote_id].producto_id = ult.producto_id
                /\ ult.antes[id].estado = DISPONIBLE
                /\ ult.antes[id].ubicacion_id = ult.filtro[1] })

Aporte(u, p) ==
  IF u.res # "ok" THEN 0
  ELSE IF u.op = "entrada"
  THEN (IF u.estado = DISPONIBLE /\ Lote[u.lote_id].producto_id = p
        THEN u.cantidad ELSE 0)
  ELSE IF u.op = "fefo" /\ u.producto_id = p THEN 0 - u.cantidad
  ELSE 0

\* C39: conservation. Every step changes the total stock of every product by
\* what the step's call contributes; the table starting empty, the total
\* stock of a product is at all times the sum of its successful DISPONIBLE
\* entries minus the sum requested by its successful depletions.
C39_Conservacion ==
  [][ \A p \in ProductoIds :
        stock_por_producto(inventario', p)
          = stock_por_producto(inventario, p)
            + (IF ult' = ult THEN 0 ELSE Aporte(ult', p)) ]_vars

\* ------------------------------------------------ cache and stock movements
\* C40: a stock entry and a FEFO depletion leave the cache as it was, key by
\* key; and a request answered from the cache returns the detail stored
\* under its key, whatever the inventario table holds by then, and leaves
\* the cache as it was.
C40_CacheAjenoAlStock ==
  [][ /\ (ult.op = "ninguna" /\ ult'.op \in {"entrada", "fefo"})
         => redis' = redis
      /\ ( /\ resp = NingunaRespuesta
           /\ resp' # NingunaRespuesta
           /\ resp'.cliente
           /\ cache_key(resp'.country, resp'.producto_id) \in DOMAIN redis
           /\ redis[cache_key(resp'.country, resp'.producto_id)] # Basura )
         => /\ resp'.cuerpo
                = Some(redis[cache_key(resp'.country, resp'.producto_id)][2])
            /\ redis' = redis ]_vars

\* A depletion has just taken stock of a product whose detail is cached: the
\* cached detail is the one of the table before the depletion and no longer
\* the one of the table.
C40_Witness ==
  /\ ult.op = "fefo"
  /\ ult.res = "ok"
  /\ \E k \in DOMAIN redis :
       /\ k[2] = ult.producto_id
       /\ redis[k] = model_dump_json(DetalleDe(ult.antes, ult.producto_id))
       /\ redis[k] # model_dump_json(DetalleDe(inventario, ult.producto_id))

====
